---- MODULE Spec2Model ----
(***************************************************************************)
(* Contract digitization: document/attribute versioning, the change-       *)
(* attribution function (changedInVersionNumber) and the review-merge      *)
(* transaction, as implemented by                                          *)
(*   fastapi_server_postgresql/main.py            (impl "pg")              *)
(*   azure_function_fastapi_replacement/orchestrator_azure_func_updated.py *)
(*                                                (impl "orch")            *)
(*   azure_function_fastapi_replacement/function_app.py   (impl "fn")      *)
(*   fastapi_server/main.py                       (impl "sqlite")          *)
(*                                                                         *)
(* Strings that the code trims or compares are sequences of one-character  *)
(* strings; Python's None is the value Null.  A rowId is the tuple         *)
(* <<attributeKey, "--", versionId>>, the code's f"{key}--{version_id}".   *)
(***************************************************************************)
EXTENDS Integers, Sequences, FiniteSets, TLC

VARIABLES
    db,          \* the committed database: one field per table
    pc,          \* pc[r]: where request r's handler stands
    req,         \* req[r]: the request being handled (server, document, payload)
    version,     \* version[r]: the resolved target version row, or None
    review_id,   \* review_id[r]: the handler's local review_id
    idx,         \* idx[r]: position of the handler's loop in payload.attributes
    update_count,\* update_count[r]: function_app's count of updated rows
    tx,          \* tx[r]: the open transaction's uncommitted writes
    response,    \* response[r]: what the caller received, or None
    conga,       \* the postbacks handed to the Conga client: request, call mode
    review_seq,  \* the review_sessions.review_id sequence (never rolled back)
    startDb,     \* history: the committed database when request r arrived
    history,     \* history: one entry per committed merge, in commit order
    nreq,        \* number of requests received so far
    fetched,     \* fetched[r]: the row the handler's SELECTs fetched (existing)
    change_data, \* change_data[r]: the read handler's change_data, or None
    client,      \* the CongaClient singleton: settings, loop position, result
    row,         \* input of normalize_value: an attribute row
    normalized,  \* result of normalize_value(row), or None before the call
    changed      \* result of the change-attribution call, or None before it

\* the variables of the pure-function specifications
fnVars == <<row, normalized, changed>>

\* the locals that only the handlers of the concurrent and the read
\* behaviours keep between their steps, and the Conga client
stepVars == <<fetched, change_data, client>>

vars == <<db, pc, req, version, review_id, idx, update_count, tx, response, conga,
          review_seq, startDb, history, nreq, fetched, change_data, client,
          row, normalized, changed>>

-----------------------------------------------------------------------------
(* Bounds of the model.                                                    *)

\* longest payload.attributes list a request carries
MaxCorr == 2
\* number of times a client submits its request again
MaxResubmits == 1
\* number of versions of the document in the attribution histories
NVer == 3
\* longest string handed to normalize_value
MaxLen == 2
\* largest CONGA_RETRY_COUNT of the environment
MaxRetry == 2
\* number of postbacks handed to the Conga client
MaxCalls == 2

-----------------------------------------------------------------------------
(* Values.                                                                 *)

\* Python's None / SQL NULL where a string is expected
Null == <<"<None>">>

\* Python's None where a row, a number or a result is expected, and a value
None == <<>>

Some(x) == <<x>>

Whitespace == {" "}

Chars == {" ", "a", "A"}

RECURSIVE StringsUpTo(_)
StringsUpTo(n) ==
    IF n = 0 THEN {<<>>}
    ELSE LET shorter == StringsUpTo(n - 1)
         IN  shorter \cup {Append(s, c) : s \in shorter, c \in Chars}

\* Python truthiness of an Optional[str]: None and "" are falsy
Falsy(v) == v = Null \/ v = <<>>

\* Python's (v or "")
OrEmpty(v) == IF Falsy(v) THEN <<>> ELSE v

RECURSIVE lstrip(_)
lstrip(s) ==
    IF s # <<>> /\ Head(s) \in Whitespace THEN lstrip(Tail(s)) ELSE s

RECURSIVE rstrip(_)
rstrip(s) ==
    IF s # <<>> /\ s[Len(s)] \in Whitespace
    THEN rstrip(SubSeq(s, 1, Len(s) - 1))
    ELSE s

\* str.strip()
strip(s) == rstrip(lstrip(s))

normalize_value_untrimmed(r) ==
    IF ~Falsy(r.correctedValue) THEN r.correctedValue ELSE OrEmpty(r.extractedValue)

\* normalize_value of the two FastAPI servers: the effective value of a row
normalize_value(r) ==
    LET corrected == strip(OrEmpty(r.correctedValue))
    IN  IF corrected # <<>> THEN corrected ELSE strip(OrEmpty(r.extractedValue))

\* _normalize_value of function_app
function_app_normalize_value(r) ==
    LET corrected == strip(OrEmpty(r.correctedValue))
    IN  IF corrected # <<>> THEN corrected ELSE strip(OrEmpty(r.extractedValue))

-----------------------------------------------------------------------------
(* Version Store lookups.  The code's SELECT ... LIMIT 1 has no ORDER BY,   *)
(* so the lookups return the set of rows the query may return; a caller     *)
(* takes any one of them, or None when the set is empty.                    *)

get_latest_version_any(d, document_id) ==
    {v \in d.document_versions : v.documentId = document_id}

\* get_latest_version / _get_latest_version
get_latest_version(d, document_id) ==
    {v \in d.document_versions : v.documentId = document_id /\ v.isLatest}

\* get_version_by_number / _get_version_by_number
get_version_by_number(d, document_id, version_number) ==
    {v \in d.document_versions :
        v.documentId = document_id /\ v.versionNumber = version_number}

\* fetchone(): one of the rows, or None
FetchOne(rows) == IF rows = {} THEN {None} ELSE {Some(v) : v \in rows}

-----------------------------------------------------------------------------
(* Change attribution.                                                      *)

UpToAllVersions(latest) ==
    IF latest = None THEN NVer ELSE latest[1].versionNumber

\* up_to = latest.get("versionNumber", 1) if latest else 1
UpTo(latest) == IF latest = None THEN 1 ELSE latest[1].versionNumber

\* one row of the attribution query's result
AttributionRow(ef, dv) ==
    [versionNumber  |-> dv.versionNumber,
     attributeKey   |-> ef.attribute_key,
     extractedValue |-> ef.field_value,
     correctedValue |-> ef.corrected_value]

\* SELECT ... FROM extracted_fields ef JOIN document_versions dv
\*   ON dv.id = ef.version_id
\*   WHERE ef.document_id = %s AND dv.versionnumber <= %s
AttributionRows(d, document_id, up_to) ==
    {AttributionRow(p[1], p[2]) :
        p \in {q \in d.extracted_fields \X d.document_versions :
                  /\ q[2].id = q[1].version_id
                  /\ q[1].document_id = document_id
                  /\ q[2].versionNumber <= up_to}}

\* ORDER BY versionNumber ASC within one attribute_key
RECURSIVE OrderByVersion(_)
OrderByVersion(rows) ==
    IF rows = {} THEN <<>>
    ELSE LET first == CHOOSE r \in rows :
                          \A o \in rows : r.versionNumber <= o.versionNumber
         IN  <<first>> \o OrderByVersion(rows \ {first})

\* by_attr[key]: the key's rows in ascending version order
ByAttr(rows, key) ==
    OrderByVersion({r \in rows : r.attributeKey = key})

RECURSIVE LastChangedLoopStalePrev(_, _, _, _)
LastChangedLoopStalePrev(seq, i, last_changed, prev) ==
    IF i > Len(seq) THEN last_changed
    ELSE IF normalize_value(seq[i]) # prev
         THEN LastChangedLoopStalePrev(seq, i + 1, seq[i].versionNumber, prev)
         ELSE LastChangedLoopStalePrev(seq, i + 1, last_changed, prev)

RECURSIVE LastChangedLoopGapResets(_, _, _, _)
LastChangedLoopGapResets(seq, i, last_changed, prev) ==
    IF i > Len(seq) THEN last_changed
    ELSE IF \/ normalize_value(seq[i]) # prev
            \/ seq[i].versionNumber # seq[i - 1].versionNumber + 1
         THEN LastChangedLoopGapResets(seq, i + 1, seq[i].versionNumber,
                                       normalize_value(seq[i]))
         ELSE LastChangedLoopGapResets(seq, i + 1, last_changed, prev)

RECURSIVE LastChangedLoopIndex(_, _, _, _)
LastChangedLoopIndex(seq, i, last_changed, prev) ==
    IF i > Len(seq) THEN last_changed
    ELSE IF normalize_value(seq[i]) # prev
         THEN LastChangedLoopIndex(seq, i + 1, i, normalize_value(seq[i]))
         ELSE LastChangedLoopIndex(seq, i + 1, last_changed, prev)

\* "for i in range(1, len(seq))" of the two FastAPI servers and the
\* orchestrator: last_changed and prev move only when the value differs
RECURSIVE LastChangedLoop(_, _, _, _)
LastChangedLoop(seq, i, last_changed, prev) ==
    IF i > Len(seq) THEN last_changed
    ELSE IF normalize_value(seq[i]) # prev
         THEN LastChangedLoop(seq, i + 1, seq[i].versionNumber,
                              normalize_value(seq[i]))
         ELSE LastChangedLoop(seq, i + 1, last_changed, prev)

\* changed_in[attr_key] = last_changed, for every key of by_attr
ChangedIn(rows) ==
    [key \in {r.attributeKey : r \in rows} |->
        LET seq == ByAttr(rows, key)
        IN  LastChangedLoop(seq, 2, seq[1].versionNumber,
                            normalize_value(seq[1]))]

\* compute_changed_in_version_number of fastapi_server_postgresql; latest is
\* the row (or None) that get_latest_version returned
compute_changed_in_version_number(d, document_id, latest) ==
    LET up_to == UpTo(latest)
    IN  [changedIn |-> ChangedIn(AttributionRows(d, document_id, up_to)),
         latestVersionNumber |-> up_to]

\* compute_changed_in_version_number of fastapi_server (SQLite): the same
\* statements over the tables attributes and document_versions
sqlite_compute_changed_in_version_number(d, document_id, latest) ==
    LET up_to == UpTo(latest)
    IN  [changedIn |-> ChangedIn(AttributionRows(d, document_id, up_to)),
         latestVersionNumber |-> up_to]

\* _compute_changed_in_version_number of the orchestrator: the same statements
orchestrator_compute_changed_in_version_number(d, document_id, latest) ==
    LET up_to == UpTo(latest)
    IN  [changedIn |-> ChangedIn(AttributionRows(d, document_id, up_to)),
         latestVersionNumber |-> up_to]

\* the loop of function_app._compute_changed_in_version_number: prev_val is
\* updated on every record, changed_version starts at 1
RECURSIVE ChangedVersionLoop(_, _, _, _)
ChangedVersionLoop(seq, i, changed_version, prev_val) ==
    IF i > Len(seq) THEN changed_version
    ELSE LET curr_val == function_app_normalize_value(seq[i])
         IN  ChangedVersionLoop(seq, i + 1,
                 IF curr_val # prev_val THEN seq[i].versionNumber
                                        ELSE changed_version,
                 curr_val)

\* _compute_changed_in_version_number of function_app
function_app_compute_changed_in_version_number(d, document_id, latest) ==
    LET up_to == UpTo(latest)
        rows  == AttributionRows(d, document_id, up_to)
    IN  [changedIn |->
            [key \in {r.attributeKey : r \in rows} |->
                LET seq == ByAttr(rows, key)
                IN  IF Len(seq) < 2 THEN 1
                    ELSE ChangedVersionLoop(seq, 2, 1,
                             function_app_normalize_value(seq[1]))],
         latestVersionNumber |-> up_to]

-----------------------------------------------------------------------------
(* The database and the requests of the review-merge behaviours.           *)

\* the handler instances that exist, and the one that serves the requests of
\* the single-client behaviours
Handlers == {1, 2}

Reqs == {1}

Impl == {"pg", "orch", "fn", "sqlite"}

\* f"{attribute_key}--{version['id']}"
RowId(attribute_key, version_id) == <<attribute_key, "--", version_id>>

DocumentVersion(id, documentId, versionNumber, isLatest, storageRef) ==
    [id |-> id, documentId |-> documentId, versionNumber |-> versionNumber,
     isLatest |-> isLatest, storageRef |-> storageRef]

ExtractedField(document_id, version_id, attribute_key, field_value) ==
    [row_id |-> RowId(attribute_key, version_id), document_id |-> document_id,
     version_id |-> version_id, attribute_key |-> attribute_key,
     field_value |-> field_value, corrected_value |-> Null]

\* The seeded database: document D1 with versions 1 and 2 (2 is the latest),
\* document D2 whose only version is not flagged latest; D0 does not exist.
SeedDb ==
    [documents |->
        {[id |-> "D1", status |-> "Pending", reviewedby |-> "",
          storageref |-> "s2", currentversionid |-> "v2",
          currentversionnumber |-> 2],
         [id |-> "D2", status |-> "Pending", reviewedby |-> "",
          storageref |-> "t1", currentversionid |-> "w1",
          currentversionnumber |-> 1]},
     document_versions |->
        {DocumentVersion("v1", "D1", 1, FALSE, "s1"),
         DocumentVersion("v2", "D1", 2, TRUE, "s2"),
         DocumentVersion("w1", "D2", 1, FALSE, "t1")},
     extracted_fields |->
        {ExtractedField("D1", "v1", "rate", <<"5">>),
         ExtractedField("D1", "v2", "rate", <<"5">>),
         ExtractedField("D1", "v2", "term", <<"1", "2">>),
         ExtractedField("D2", "w1", "rate", <<"1">>)},
     review_sessions |-> {},
     reviewed_fields |-> <<>>,
     attribute_reviews |-> <<>>]

\* the entries a payload.attributes list is built from
AttributeUpdates ==
    {[id |-> "rate", correctedValue |-> <<"7">>, rowId |-> Null],
     [id |-> "rate", correctedValue |-> <<"8">>, rowId |-> Null],
     [id |-> "rate", correctedValue |-> Null,    rowId |-> Null],
     [id |-> "rate", correctedValue |-> <<>>,    rowId |-> Null],
     [id |-> "fee",  correctedValue |-> <<"7">>, rowId |-> Null],
     [id |-> "",     correctedValue |-> <<"7">>, rowId |-> Null],
     [id |-> "rate", correctedValue |-> <<"8">>, rowId |-> RowId("term", "v2")]}

RECURSIVE ListsUpTo(_, _)
ListsUpTo(S, n) ==
    IF n = 0 THEN {<<>>}
    ELSE LET shorter == ListsUpTo(S, n - 1)
         IN  shorter \cup {Append(l, x) : l \in shorter, x \in S}

\* the document and versionNumber a request names
Targets ==
    {<<"D1", None>>, <<"D1", Some(1)>>, <<"D1", Some(3)>>,
     <<"D2", None>>, <<"D0", None>>}

Requests ==
    {[impl |-> i, document_id |-> t[1], versionNumber |-> t[2],
      reviewedBy |-> "alice", status |-> "Approved", attributes |-> a,
      no |-> 0] :
        i \in Impl, t \in Targets, a \in ListsUpTo(AttributeUpdates, MaxCorr)}

\* a transaction that wrote nothing
NoTx == [open |-> FALSE, review_sessions |-> {}, corrected |-> <<>>,
         reviewed_fields |-> <<>>, attribute_reviews |-> <<>>,
         documents |-> <<>>]

-----------------------------------------------------------------------------
(* Transactions.  A handler's statements go to its own connection: they are *)
(* kept in tx[r] and reach the committed database at conn.commit(); the     *)
(* handler's own reads see them (TxView).                                   *)

\* UPDATE extracted_fields SET corrected_value = %s
\*   WHERE row_id = %s AND version_id = %s
UpdateByRowId(row_id, version_id, value) ==
    [by |-> "row_id", row_id |-> row_id, version_id |-> version_id,
     document_id |-> "", attribute_key |-> "", value |-> value]

\* UPDATE extracted_fields SET corrected_value = %s
\*   WHERE document_id = %s AND version_id = %s AND attribute_key = %s
UpdateByKey(document_id, version_id, attribute_key, value) ==
    [by |-> "attribute_key", row_id |-> <<>>, version_id |-> version_id,
     document_id |-> document_id, attribute_key |-> attribute_key,
     value |-> value]

MatchesAnyVersion(e, u) ==
    IF u.by = "row_id"
    THEN e.row_id = u.row_id
    ELSE e.document_id = u.document_id /\ e.attribute_key = u.attribute_key

\* the WHERE clause of an UPDATE, on one row
Matches(e, u) ==
    IF u.by = "row_id"
    THEN e.row_id = u.row_id /\ e.version_id = u.version_id
    ELSE /\ e.document_id = u.document_id
         /\ e.version_id = u.version_id
         /\ e.attribute_key = u.attribute_key

ApplyUpdateSetsFieldValue(fields, u) ==
    {IF Matches(e, u) THEN [e EXCEPT !.field_value = u.value] ELSE e :
        e \in fields}

ApplyUpdateSkipsEmpty(fields, u) ==
    {IF Matches(e, u) /\ ~Falsy(u.value)
     THEN [e EXCEPT !.corrected_value = u.value] ELSE e : e \in fields}

ApplyUpdate(fields, u) ==
    {IF Matches(e, u) THEN [e EXCEPT !.corrected_value = u.value] ELSE e :
        e \in fields}

RECURSIVE ApplyUpdates(_, _)
ApplyUpdates(fields, updates) ==
    IF updates = <<>> THEN fields
    ELSE ApplyUpdates(ApplyUpdate(fields, Head(updates)), Tail(updates))

\* UPDATE documents SET status = %s, reviewedby = %s[, storageref = %s]
\*   WHERE id = %s
ApplyDocumentUpdate(docs, u) ==
    {IF doc.id = u.id
     THEN [doc EXCEPT !.status = u.status,
                      !.reviewedby = u.reviewedby,
                      !.storageref = IF u.sets_storageref THEN u.storageref
                                     ELSE @]
     ELSE doc : doc \in docs}

RECURSIVE ApplyDocumentUpdates(_, _)
ApplyDocumentUpdates(docs, updates) ==
    IF updates = <<>> THEN docs
    ELSE ApplyDocumentUpdates(ApplyDocumentUpdate(docs, Head(updates)),
                              Tail(updates))

TxViewFlagsTarget(d, t) ==
    [documents         |-> ApplyDocumentUpdates(d.documents, t.documents),
     document_versions |->
        {IF \E s \in t.review_sessions : s.target_version_id = v.id
         THEN [v EXCEPT !.isLatest = TRUE] ELSE v : v \in d.document_versions},
     extracted_fields  |-> ApplyUpdates(d.extracted_fields, t.corrected),
     review_sessions   |-> d.review_sessions \cup t.review_sessions,
     reviewed_fields   |-> d.reviewed_fields \o t.reviewed_fields,
     attribute_reviews |-> d.attribute_reviews \o t.attribute_reviews]

TxViewDropsCorrections(d, t) ==
    [documents         |-> ApplyDocumentUpdates(d.documents, t.documents),
     document_versions |-> d.document_versions,
     extracted_fields  |-> d.extracted_fields,
     review_sessions   |-> d.review_sessions \cup t.review_sessions,
     reviewed_fields   |-> d.reviewed_fields \o t.reviewed_fields,
     attribute_reviews |-> d.attribute_reviews \o t.attribute_reviews]

TxViewReplacesAudit(d, t) ==
    [documents         |-> ApplyDocumentUpdates(d.documents, t.documents),
     document_versions |-> d.document_versions,
     extracted_fields  |-> ApplyUpdates(d.extracted_fields, t.corrected),
     review_sessions   |-> d.review_sessions \cup t.review_sessions,
     reviewed_fields   |-> t.reviewed_fields,
     attribute_reviews |-> t.attribute_reviews]

\* what the connection of transaction t reads, and what its commit leaves
TxView(d, t) ==
    [documents         |-> ApplyDocumentUpdates(d.documents, t.documents),
     document_versions |-> d.document_versions,
     extracted_fields  |-> ApplyUpdates(d.extracted_fields, t.corrected),
     review_sessions   |-> d.review_sessions \cup t.review_sessions,
     reviewed_fields   |-> d.reviewed_fields \o t.reviewed_fields,
     attribute_reviews |-> d.attribute_reviews \o t.attribute_reviews]

\* PostgreSQL's row-level locks: an UPDATE waits while the open transaction
\* of another handler has updated a row it matches, until that transaction
\* commits or rolls back
RowLockedByOther(r, u) ==
    \E o \in Handlers \ {r} :
    \E k \in 1..Len(tx[o].corrected) :
    \E e \in db.extracted_fields :
        Matches(e, u) /\ Matches(e, tx[o].corrected[k])

DocumentLockedByOther(r, id) ==
    \E o \in Handlers \ {r} :
    \E k \in 1..Len(tx[o].documents) : tx[o].documents[k].id = id

TxWriteAutocommit(r, t) ==
    /\ db' = TxView(db, t)
    /\ tx' = [tx EXCEPT ![r] = [NoTx EXCEPT !.open = TRUE]]

\* cursor.execute(...) on the handler's connection, between BEGIN and commit:
\* the transaction's writes become t, the committed database is untouched
TxWrite(r, t) ==
    /\ tx' = [tx EXCEPT ![r] = t]
    /\ db' = db

-----------------------------------------------------------------------------
(* Responses.                                                               *)

ErrorResponse(status) ==
    [status |-> status, versionId |-> "", versionNumber |-> 0,
     reviewSessionId |-> "None", fieldsUpdated |-> 0]

\* raise HTTPException(status_code=...), return _error(...)
Return(r, resp) ==
    /\ response' = [response EXCEPT ![r] = Some(resp)]
    /\ pc' = [pc EXCEPT ![r] = "done"]

-----------------------------------------------------------------------------
(* The review-merge handlers: save_review of fastapi_server_postgresql      *)
(* ("pg"), _handle_save_review of the orchestrator ("orch"), save_review of *)
(* function_app ("fn") and save_review of fastapi_server ("sqlite").        *)

\* function_app: corrections_by_key, a dict in insertion order, built from
\* the attributes that carry an attributeKey (the field id of a request sent
\* to function_app stands for attributeKey); None becomes ""
RECURSIVE CorrectionsByKey(_, _)
CorrectionsByKey(attributes, acc) ==
    IF attributes = <<>> THEN acc
    ELSE LET attr == Head(attributes)
             val  == IF attr.correctedValue # Null THEN attr.correctedValue
                     ELSE <<>>
             at   == {i \in 1..Len(acc) : acc[i].key = attr.id}
         IN  CorrectionsByKey(Tail(attributes),
                 IF attr.id = "" THEN acc
                 ELSE IF at # {}
                      THEN [i \in 1..Len(acc) |->
                               IF i \in at THEN [acc[i] EXCEPT !.value = val]
                               ELSE acc[i]]
                      ELSE Append(acc, [key |-> attr.id, value |-> val]))

\* what the handler's loop runs over
LoopItems(q) ==
    IF q.impl = "fn" THEN CorrectionsByKey(q.attributes, <<>>)
    ELSE q.attributes

\* the handler is entered with request q
Enter(r, q) ==
    /\ nreq' = nreq + 1
    /\ req' = [req EXCEPT ![r] = Some([q EXCEPT !.no = nreq + 1])]
    /\ pc' = [pc EXCEPT ![r] = "resolve"]
    /\ version' = [version EXCEPT ![r] = None]
    /\ review_id' = [review_id EXCEPT ![r] = 0]
    /\ idx' = [idx EXCEPT ![r] = 1]
    /\ update_count' = [update_count EXCEPT ![r] = 0]
    /\ tx' = [tx EXCEPT ![r] = NoTx]
    /\ response' = [response EXCEPT ![r] = None]
    /\ startDb' = [startDb EXCEPT ![r] = db]
    /\ UNCHANGED <<db, conga, review_seq, history, fnVars, stepVars>>

\* the client's request arrives
Receive(r) ==
    /\ pc[r] = "idle"
    /\ \E q \in Requests : Enter(r, q)

\* the client submits the request it submitted last once more
Resubmit(r) ==
    /\ pc[r] = "done"
    /\ nreq <= MaxResubmits
    /\ Enter(r, req[r][1])

\* the rows the handler's version lookup may return
ResolveVersion(d, q) ==
    IF q.impl # "fn" /\ q.versionNumber # None
    THEN get_version_by_number(d, q.document_id, q.versionNumber[1])
    ELSE get_latest_version(d, q.document_id)

\* "Determine version" ... "if not version: 404"
Resolve(r) ==
    /\ pc[r] = "resolve"
    /\ LET q == req[r][1]
           found == ResolveVersion(db, q)
       IN  IF found = {}
           THEN /\ Return(r, ErrorResponse(404))
                /\ UNCHANGED version
           ELSE /\ \E v \in found : version' = [version EXCEPT ![r] = Some(v)]
                /\ pc' = [pc EXCEPT ![r] = "begin"]
                /\ UNCHANGED response
    /\ UNCHANGED <<db, req, review_id, idx, update_count, tx, conga,
                   review_seq, startDb, history, nreq, fnVars, stepVars>>

\* conn = get_conn(); BEGIN; INSERT INTO review_sessions ... RETURNING review_id
\* (function_app and the SQLite server open the transaction and insert no
\* session)
Begin(r) ==
    /\ pc[r] = "begin"
    /\ LET q == req[r][1]
           v == version[r][1]
       IN  IF q.impl \in {"fn", "sqlite"}
           THEN /\ TxWrite(r, [NoTx EXCEPT !.open = TRUE])
                /\ UNCHANGED <<review_id, review_seq>>
           ELSE /\ review_seq' = review_seq + 1
                /\ review_id' = [review_id EXCEPT ![r] = review_seq + 1]
                /\ TxWrite(r, [NoTx EXCEPT
                       !.open = TRUE,
                       !.review_sessions =
                           {[review_id |-> review_seq + 1,
                             document_id |-> q.document_id,
                             target_version_id |-> v.id,
                             reviewer |-> q.reviewedBy,
                             status |-> "COMPLETED"]}])
    /\ pc' = [pc EXCEPT ![r] = "loop"]
    /\ UNCHANGED <<req, version, idx, update_count, response, conga, startDb,
                   history, nreq, fnVars, stepVars>>

\* row_id = attr.rowId or f"{attribute_key}--{version['id']}"
RowIdOf(attr, version_id) ==
    IF Falsy(attr.rowId) THEN RowId(attr.id, version_id) ELSE attr.rowId

\* SELECT ... FROM extracted_fields WHERE row_id = %s AND version_id = %s
SelectByRowId(d, row_id, version_id) ==
    {e \in d.extracted_fields : e.row_id = row_id /\ e.version_id = version_id}

ReviewedFieldsInsertIfChanged(rid, q, v, attr, existing) ==
    IF existing # None /\ existing[1].corrected_value = attr.correctedValue
    THEN <<>>
    ELSE <<[review_id |-> rid, document_id |-> q.document_id,
            target_version_id |-> v.id, attribute_key |-> attr.id,
            original_value |->
                IF existing = None THEN Null ELSE existing[1].field_value,
            old_corrected_value |->
                IF existing = None THEN Null ELSE existing[1].corrected_value,
            new_corrected_value |-> attr.correctedValue,
            reviewed_by |-> q.reviewedBy]>>

ReviewedFieldsInsertNoSession(rid, q, v, attr, existing) ==
    <<[review_id |-> 0, document_id |-> q.document_id,
       target_version_id |-> v.id, attribute_key |-> attr.id,
       original_value |->
           IF existing = None THEN Null ELSE existing[1].field_value,
       old_corrected_value |->
           IF existing = None THEN Null ELSE existing[1].corrected_value,
       new_corrected_value |-> attr.correctedValue,
       reviewed_by |-> q.reviewedBy]>>

\* INSERT INTO reviewed_fields (...): the rows the statement appends; existing
\* is the row the two SELECTs returned, or None
ReviewedFieldsInsert(rid, q, v, attr, existing) ==
    <<[review_id |-> rid, document_id |-> q.document_id,
       target_version_id |-> v.id, attribute_key |-> attr.id,
       original_value |->
           IF existing = None THEN Null ELSE existing[1].field_value,
       old_corrected_value |->
           IF existing = None THEN Null ELSE existing[1].corrected_value,
       new_corrected_value |-> attr.correctedValue,
       reviewed_by |-> q.reviewedBy]>>

\* SQLite server: INSERT INTO attribute_reviews (...), a table without a
\* column for the extracted value; existing is the row the SELECT returned
AttributeReviewsInsert(q, v, attr, existing) ==
    <<[documentId |-> q.document_id, versionId |-> v.id,
       attributeKey |-> attr.id,
       oldCorrectedValue |->
           IF existing = None THEN Null ELSE existing[1].corrected_value,
       newCorrectedValue |-> attr.correctedValue,
       reviewedBy |-> q.reviewedBy]>>

\* one pass of "for attr in payload.attributes" (pg, orch, sqlite) or of
\* "for attr_key, corrected_val in corrections_by_key.items()" (fn)
ApplyCorrection(r) ==
    /\ pc[r] = "loop"
    /\ idx[r] <= Len(LoopItems(req[r][1]))
    /\ LET q    == req[r][1]
           v    == version[r][1]
           item == LoopItems(q)[idx[r]]
           view == TxView(db, tx[r])
       IN  IF q.impl = "fn"
           THEN LET db_value == IF Falsy(item.value) THEN Null ELSE item.value
                    u == UpdateByKey(q.document_id, v.id, item.key, db_value)
                    rowcount == Cardinality({e \in view.extracted_fields :
                                                Matches(e, u)})
                IN  /\ TxWrite(r, [tx[r] EXCEPT !.corrected = Append(@, u)])
                    /\ update_count' = [update_count EXCEPT ![r] =
                           IF rowcount > 0 THEN @ + 1 ELSE @]
           ELSE /\ UNCHANGED update_count
                /\ IF item.id = ""
                   THEN UNCHANGED <<tx, db>>
                   ELSE LET row_id == RowIdOf(item, v.id)
                            found  == SelectByRowId(view, row_id, v.id)
                        IN  \E existing \in
                                IF found = {} THEN {None}
                                ELSE {Some(e) : e \in found} :
                              TxWrite(r, [tx[r] EXCEPT
                                !.corrected = Append(@,
                                    UpdateByRowId(row_id, v.id,
                                                  item.correctedValue)),
                                !.reviewed_fields =
                                    IF q.impl = "sqlite" THEN @
                                    ELSE @ \o ReviewedFieldsInsert(
                                             review_id[r], q, v, item,
                                             existing),
                                !.attribute_reviews =
                                    IF q.impl # "sqlite" THEN @
                                    ELSE @ \o AttributeReviewsInsert(
                                             q, v, item, existing)])
    /\ idx' = [idx EXCEPT ![r] = @ + 1]
    /\ UNCHANGED <<pc, req, version, review_id, response, conga, review_seq,
                   startDb, history, nreq, fnVars, stepVars>>

DocumentUpdateKeepsStorageRef(q, v) ==
    [id |-> q.document_id,
     status |-> IF q.impl = "fn" THEN "Reviewed" ELSE q.status,
     reviewedby |-> q.reviewedBy, sets_storageref |-> FALSE,
     storageref |-> ""]

\* UPDATE documents SET status, reviewedby[, storageref] WHERE id = %s
DocumentUpdate(q, v) ==
    IF q.impl = "fn"
    THEN [id |-> q.document_id, status |-> "Reviewed",
          reviewedby |-> q.reviewedBy, sets_storageref |-> FALSE,
          storageref |-> ""]
    ELSE [id |-> q.document_id, status |-> q.status,
          reviewedby |-> q.reviewedBy, sets_storageref |-> TRUE,
          storageref |-> v.storageRef]

\* str(review_id) if review_id else None, as the answer and the postback
\* carry it
ReviewSessionId(rid) == IF rid # 0 THEN ToString(rid) ELSE "None"

\* conga_payload = {...} (pg, orch), or the arguments of send_review_async
\* (fn, which has no review session), and how it is handed over
CongaPayload(q, v, rid, mode) ==
    [no |-> q.no, mode |-> mode, documentId |-> q.document_id,
     versionId |-> v.id, versionNumber |-> v.versionNumber,
     reviewSessionId |-> ReviewSessionId(rid)]

UpdateDocumentAndNotify(r) ==
    /\ pc[r] = "loop"
    /\ idx[r] > Len(LoopItems(req[r][1]))
    /\ ~DocumentLockedByOther(r, req[r][1].document_id)
    /\ TxWrite(r, [tx[r] EXCEPT !.documents =
                      Append(@, DocumentUpdate(req[r][1], version[r][1]))])
    /\ conga' = Append(conga, CongaPayload(req[r][1], version[r][1],
                                            review_id[r], "queued"))
    /\ pc' = [pc EXCEPT ![r] = "commit"]
    /\ UNCHANGED <<req, version, review_id, idx, update_count, response,
                   review_seq, startDb, history, nreq, fnVars, stepVars>>

\* "Update document status", after the loop
UpdateDocument(r) ==
    /\ pc[r] = "loop"
    /\ idx[r] > Len(LoopItems(req[r][1]))
    /\ ~DocumentLockedByOther(r, req[r][1].document_id)
    /\ TxWrite(r, [tx[r] EXCEPT !.documents =
                      Append(@, DocumentUpdate(req[r][1], version[r][1]))])
    /\ pc' = [pc EXCEPT ![r] = "commit"]
    /\ UNCHANGED <<req, version, review_id, idx, update_count, response,
                   conga, review_seq, startDb, history, nreq, fnVars, stepVars>>

\* conn.commit(); the SQLite server has no postback and goes on to its answer
Commit(r) ==
    /\ pc[r] = "commit"
    /\ db' = TxView(db, tx[r])
    /\ tx' = [tx EXCEPT ![r] = NoTx]
    /\ history' = Append(history,
                     [no |-> req[r][1].no,
                      audited |-> req[r][1].impl \in {"pg", "orch"},
                      attributes |-> req[r][1].attributes,
                      version_id |-> version[r][1].id,
                      review_id |-> review_id[r],
                      after |-> TxView(db, tx[r]).extracted_fields])
    /\ pc' = [pc EXCEPT ![r] = IF req[r][1].impl = "sqlite" THEN "respond"
                               ELSE "conga"]
    /\ UNCHANGED <<req, version, review_id, idx, update_count, response,
                   conga, review_seq, startDb, nreq, fnVars, stepVars>>

\* A statement of the transaction (get_conn, BEGIN, an INSERT, a SELECT, an
\* UPDATE, the commit) raises (a detected deadlock is such an error), or the
\* request is cancelled: the except
\* clauses call conn.rollback(), the finally clause closes the connection.
\* how = "error": the handler answers 500; how = "cancelled": no answer.
Fail(r, how) ==
    /\ pc[r] \in {"begin", "loop", "update", "commit"}
    /\ tx' = [tx EXCEPT ![r] = NoTx]
    /\ IF how = "error"
       THEN Return(r, ErrorResponse(500))
       ELSE /\ pc' = [pc EXCEPT ![r] = "done"]
            /\ UNCHANGED response
    /\ UNCHANGED <<db, req, version, review_id, idx, update_count, conga,
                   review_seq, startDb, history, nreq, fnVars, stepVars>>

-----------------------------------------------------------------------------
(* After the commit: the Conga postback and the answer.                     *)

\* conga_client = get_conga_client().  The first call constructs CongaClient,
\* which parses CONGA_TIMEOUT_SECONDS and CONGA_RETRY_COUNT with int() and
\* creates the log directory: ok = FALSE is that constructor raising.
\*   pg:   the call stands inside the handler's try; "except Exception"
\*         rolls back (nothing is open any more) and raises HTTP 500.
\*   orch: the call stands outside every try; the exception leaves the
\*         handler and the host answers 500.
\*   fn:   the call stands inside "try ... except Exception as conga_err",
\*         which logs and goes on to the answer.
GetCongaClient(r, ok) ==
    /\ pc[r] = "conga"
    /\ IF ok
       THEN /\ pc' = [pc EXCEPT ![r] = "notify"]
            /\ UNCHANGED response
       ELSE IF req[r][1].impl = "fn"
            THEN /\ pc' = [pc EXCEPT ![r] = "respond"]
                 /\ UNCHANGED response
            ELSE Return(r, ErrorResponse(500))
    /\ UNCHANGED <<db, req, version, review_id, idx, update_count, tx, conga,
                   review_seq, startDb, history, nreq, fnVars, stepVars>>

\* how the handler hands the postback over when the environment asks for
\* mode ("sync", "async", or "disabled" for CONGA_ENABLED=false)
\*   pg:   background_tasks.add_task(conga_client.post_review, conga_payload),
\*         whatever the mode
\*   orch: if conga_client.enabled: await post_review (sync, exceptions
\*         swallowed) or asyncio.create_task(post_review) (async)
\*   fn:   await send_review_async (sync) or create_task(send_and_log())
\*         (async); a disabled client is still called and skips by itself
CallMode(q, mode) ==
    IF q.impl = "pg" THEN "queued"
    ELSE IF mode = "disabled" THEN (IF q.impl = "fn" THEN "sync" ELSE "none")
    ELSE mode

\* the postback is handed over; whatever the post does (succeed, fail,
\* raise), the handler goes on to its answer
Notify(r, mode) ==
    /\ pc[r] = "notify"
    /\ conga' = IF CallMode(req[r][1], mode) = "none" THEN conga
                ELSE Append(conga, CongaPayload(req[r][1], version[r][1],
                                                review_id[r],
                                                CallMode(req[r][1], mode)))
    /\ pc' = [pc EXCEPT ![r] = "respond"]
    /\ UNCHANGED <<db, req, version, review_id, idx, update_count, tx,
                   response, review_seq, startDb, history, nreq, fnVars,
                   stepVars>>

\* orch: asyncio.create_task(conga_client.post_review(conga_payload)) raises
\* something other than RuntimeError (the CongaClient of the orchestrator's
\* package defines send_review_async and no post_review): the exception
\* leaves the handler and the host answers 500
NotifyRaises(r) ==
    /\ pc[r] = "notify"
    /\ req[r][1].impl = "orch"
    /\ Return(r, ErrorResponse(500))
    /\ UNCHANGED <<db, req, version, review_id, idx, update_count, tx, conga,
                   review_seq, startDb, history, nreq, fnVars, stepVars>>

\* number of entries of payload.attributes with a non-empty id
RECURSIVE CountWithId(_)
CountWithId(attributes) ==
    IF attributes = <<>> THEN 0
    ELSE (IF Head(attributes).id # "" THEN 1 ELSE 0)
         + CountWithId(Tail(attributes))

\* the body of the 200 answer
SuccessResponse(q, v, rid, count) ==
    [status |-> 200, versionId |-> v.id, versionNumber |-> v.versionNumber,
     reviewSessionId |-> ReviewSessionId(rid),
     fieldsUpdated |->
        IF q.impl = "pg" THEN Len(q.attributes)
        ELSE IF q.impl = "orch" THEN CountWithId(q.attributes)
        ELSE count]

\* return {"success": True, ...}
Respond(r) ==
    /\ pc[r] = "respond"
    /\ Return(r, SuccessResponse(req[r][1], version[r][1], review_id[r],
                                 update_count[r]))
    /\ UNCHANGED <<db, req, version, review_id, idx, update_count, tx, conga,
                   review_seq, startDb, history, nreq, fnVars, stepVars>>

-----------------------------------------------------------------------------
(* Specification of the review-merge behaviours: a request arrives at one   *)
(* of the four servers, over the seeded database, and is submitted again    *)
(* up to MaxResubmits times once it has been answered or dropped.           *)

\* _conga_client = None: no CongaClient has been constructed
NoClient ==
    [pc |-> "new", package |-> "pg", enabled |-> FALSE, mock |-> TRUE,
     retry_count |-> 0, calls |-> 0, attempt |-> 0, posts |-> 0,
     succeeded |-> FALSE, file |-> 0,
     result |-> [kind |-> "none", success |-> "absent", attempts |-> 0]]

Idle ==
    /\ pc = [r \in Handlers |-> "idle"]
    /\ req = [r \in Handlers |-> None]
    /\ version = [r \in Handlers |-> None]
    /\ review_id = [r \in Handlers |-> 0]
    /\ idx = [r \in Handlers |-> 1]
    /\ update_count = [r \in Handlers |-> 0]
    /\ tx = [r \in Handlers |-> NoTx]
    /\ response = [r \in Handlers |-> None]
    /\ fetched = [r \in Handlers |-> None]
    /\ change_data = [r \in Handlers |-> None]
    /\ client = NoClient
    /\ conga = <<>>
    /\ review_seq = 0
    /\ history = <<>>
    /\ nreq = 0

Init ==
    /\ db = SeedDb
    /\ startDb = [r \in Handlers |-> SeedDb]
    /\ Idle
    /\ row = [correctedValue |-> Null, extractedValue |-> Null]
    /\ normalized = None
    /\ changed = None

Next ==
    \E r \in Reqs :
        \/ Receive(r)
        \/ Resubmit(r)
        \/ Resolve(r)
        \/ Begin(r)
        \/ ApplyCorrection(r)
        \/ UpdateDocument(r)
        \/ Commit(r)
        \/ \E how \in {"error", "cancelled"} : Fail(r, how)
        \/ \E ok \in BOOLEAN : GetCongaClient(r, ok)
        \/ \E mode \in {"sync", "async", "disabled"} : Notify(r, mode)
        \/ NotifyRaises(r)
        \/ Respond(r)

Spec == Init /\ [][Next]_vars

-----------------------------------------------------------------------------
(* Specification of normalize_value: any attribute row, then one call.      *)

\* the values a correctedValue / extractedValue column holds
Values == {Null} \cup StringsUpTo(MaxLen)

AttributeRows == [correctedValue : Values, extractedValue : Values]

\* normalize_value(row) of fastapi_server_postgresql
Normalize ==
    /\ normalized = None
    /\ normalized' = Some([by |-> "pg", value |-> normalize_value(row)])
    /\ UNCHANGED <<db, pc, req, version, review_id, idx, update_count, tx,
                   response, conga, review_seq, startDb, history,
                   nreq, fetched, change_data, client, row, changed>>

\* _normalize_value(row) of function_app
FunctionAppNormalize ==
    /\ normalized = None
    /\ normalized' = Some([by |-> "fn",
                           value |-> function_app_normalize_value(row)])
    /\ UNCHANGED <<db, pc, req, version, review_id, idx, update_count, tx,
                   response, conga, review_seq, startDb, history,
                   nreq, fetched, change_data, client, row, changed>>

InitNorm ==
    /\ db = SeedDb
    /\ startDb = [r \in Handlers |-> SeedDb]
    /\ Idle
    /\ row \in AttributeRows
    /\ normalized = None
    /\ changed = None

NextNorm == Normalize \/ FunctionAppNormalize

SpecNorm == InitNorm /\ [][NextNorm]_vars

-----------------------------------------------------------------------------
(* Specification of change attribution: any history of document D1 over     *)
(* versions 1..NVer, then one call of one server's attribution function.    *)

\* what a version holds for the key "rate": nothing, or an extracted value
\* and a corrected value
RateOptions ==
    {None,
     Some([field_value |-> <<"5">>,      corrected_value |-> Null]),
     Some([field_value |-> <<"5">>,      corrected_value |-> <<"7">>]),
     Some([field_value |-> <<"7">>,      corrected_value |-> Null]),
     Some([field_value |-> <<" ", "5">>, corrected_value |-> <<" ">>])}

\* the versions of D1; latest = 0: no version is flagged latest
HistoryVersions(latest) ==
    {DocumentVersion(ToString(n), "D1", n, n = latest, "s") : n \in 1..NVer}
    \cup {DocumentVersion("w1", "D2", 1, TRUE, "t")}

\* the records of D1: rate as chosen per version, term (if any) in version
\* term; one record of another document
HistoryFields(rate, term) ==
    {[ExtractedField("D1", ToString(n), "rate", rate[n][1].field_value)
         EXCEPT !.corrected_value = rate[n][1].corrected_value] :
        n \in {m \in 1..NVer : rate[m] # None}}
    \cup {ExtractedField("D1", ToString(n), "term", <<"1">>) :
            n \in {m \in 1..NVer : m = term}}
    \cup {ExtractedField("D2", "w1", "rate", <<"9">>)}

HistoryDb(latest, rate, term) ==
    [SeedDb EXCEPT !.document_versions = HistoryVersions(latest),
                   !.extracted_fields  = HistoryFields(rate, term)]

\* the four attribution functions
Attribution(impl, d, document_id, latest) ==
    IF impl = "pg" THEN compute_changed_in_version_number(d, document_id, latest)
    ELSE IF impl = "sqlite"
    THEN sqlite_compute_changed_in_version_number(d, document_id, latest)
    ELSE IF impl = "orch"
    THEN orchestrator_compute_changed_in_version_number(d, document_id, latest)
    ELSE function_app_compute_changed_in_version_number(d, document_id, latest)

\* one server computes the attribution of D1
Compute(impl) ==
    /\ changed = None
    /\ \E latest \in FetchOne(get_latest_version(db, "D1")) :
          changed' = Some([by |-> impl,
                           result |-> Attribution(impl, db, "D1", latest)])
    /\ UNCHANGED <<db, pc, req, version, review_id, idx, update_count, tx,
                   response, conga, review_seq, startDb, history,
                   nreq, fetched, change_data, client, row, normalized>>

InitAttr ==
    /\ \E latest \in 0..NVer, term \in {0, 2} :
       \E rate \in [1..NVer -> RateOptions] :
          db = HistoryDb(latest, rate, term)
    /\ startDb = [r \in Handlers |-> SeedDb]
    /\ Idle
    /\ row = [correctedValue |-> Null, extractedValue |-> Null]
    /\ normalized = None
    /\ changed = None

NextAttr ==
    \/ Compute("pg")
    \/ Compute("sqlite")
    \/ Compute("orch")
    \/ Compute("fn")

SpecAttr == InitAttr /\ [][NextAttr]_vars

-----------------------------------------------------------------------------
(* Specification of attribution after a merge: over a history of D1 whose   *)
(* version NVer is the latest, the PostgreSQL server merges one correction  *)
(* into the latest version and then computes the attribution.               *)

\* the history, with D1 pointing to its latest version
MergedDb(rate, term) ==
    [HistoryDb(NVer, rate, term) EXCEPT !.documents =
        {IF doc.id = "D1"
         THEN [doc EXCEPT !.storageref = "s",
                          !.currentversionid = ToString(NVer),
                          !.currentversionnumber = NVer]
         ELSE doc : doc \in SeedDb.documents}]

\* the corrections of the merge: of rate, to a value of the history, to a
\* new value, to blank and to null; and of term
LatestCorrections ==
    {[id |-> "rate", correctedValue |-> c, rowId |-> Null] :
        c \in {<<"5">>, <<"7">>, <<"8">>, <<" ">>, Null}}
    \cup {[id |-> "term", correctedValue |-> <<"8">>, rowId |-> Null]}

LatestRequests ==
    {[impl |-> "pg", document_id |-> "D1", versionNumber |-> None,
      reviewedBy |-> "alice", status |-> "Approved", attributes |-> <<a>>,
      no |-> 0] : a \in LatestCorrections}

\* the client's request to merge one correction into the latest version
ReceiveLatest(r) ==
    /\ pc[r] = "idle"
    /\ \E q \in LatestRequests : Enter(r, q)

\* the PostgreSQL server computes the attribution of D1 once the merge of
\* request r has committed
ComputeAfterMerge(r) ==
    /\ Len(history) > 0
    /\ pc[r] \in {"conga", "notify", "respond", "done"}
    /\ Compute("pg")

InitMerged ==
    /\ \E term \in {0, NVer} :
       \E rate \in [1..NVer -> RateOptions] :
          /\ db = MergedDb(rate, term)
          /\ startDb = [r \in Handlers |-> MergedDb(rate, term)]
    /\ Idle
    /\ row = [correctedValue |-> Null, extractedValue |-> Null]
    /\ normalized = None
    /\ changed = None

NextMerged ==
    \E r \in Reqs :
        \/ ReceiveLatest(r)
        \/ Resolve(r)
        \/ Begin(r)
        \/ ApplyCorrection(r)
        \/ UpdateDocument(r)
        \/ Commit(r)
        \/ \E how \in {"error", "cancelled"} : Fail(r, how)
        \/ \E ok \in BOOLEAN : GetCongaClient(r, ok)
        \/ \E mode \in {"sync", "async", "disabled"} : Notify(r, mode)
        \/ Respond(r)
        \/ ComputeAfterMerge(r)

SpecMerged == InitMerged /\ [][NextMerged]_vars

-----------------------------------------------------------------------------
(* The read handlers: get_attributes and export_attributes of the           *)
(* PostgreSQL server ("pg"), _handle_get_attributes and                     *)
(* _handle_export_attributes of the orchestrator ("orch").  Each query of a *)
(* read handler runs on a connection of its own and sees what is committed. *)

\* the characters of the version parameters
Digits == {"1", "2"}

VersionChars == Digits \cup {"x", " "}

Latest == <<"l", "a", "t", "e", "s", "t">>

RECURSIVE VersionStringsUpTo(_)
VersionStringsUpTo(n) ==
    IF n = 0 THEN {<<>>}
    ELSE LET shorter == VersionStringsUpTo(n - 1)
         IN  shorter \cup {Append(s, c) : s \in shorter, c \in VersionChars}

\* the values of the query parameter version: latest in two spellings, and
\* the strings of digits, letters and blanks
VersionParams ==
    {Latest, <<"L", "a", "t", "e", "s", "t">>} \cup VersionStringsUpTo(MaxLen)

\* str.lower()
lower(s) == [k \in 1..Len(s) |-> IF s[k] = "L" THEN "l" ELSE s[k]]

RECURSIVE IntOfDigits(_)
IntOfDigits(t) ==
    IF t = <<>> THEN 0
    ELSE 10 * IntOfDigits(SubSeq(t, 1, Len(t) - 1))
         + (IF t[Len(t)] = "1" THEN 1 ELSE 2)

\* int(s) of a str: surrounding whitespace is ignored, the rest has to be
\* digits (a sign and underscores, which int() accepts as well, are not among
\* VersionChars); None stands for the ValueError
int(s) ==
    LET t == strip(s)
    IN  IF t # <<>> /\ \A k \in 1..Len(t) : t[k] \in Digits
        THEN Some(IntOfDigits(t)) ELSE None

ReadRequests ==
    {[impl |-> i, kind |-> k, document_id |-> d, version |-> p, no |-> 0] :
        i \in {"pg", "orch"}, k \in {"attributes", "export"},
        d \in {"D1", "D2", "D0"}, p \in VersionParams}

\* the read handler is entered with request q
EnterRead(r, q) ==
    /\ nreq' = nreq + 1
    /\ req' = [req EXCEPT ![r] = Some([q EXCEPT !.no = nreq + 1])]
    /\ pc' = [pc EXCEPT ![r] = "read_version"]
    /\ version' = [version EXCEPT ![r] = None]
    /\ change_data' = [change_data EXCEPT ![r] = None]
    /\ response' = [response EXCEPT ![r] = None]
    /\ startDb' = [startDb EXCEPT ![r] = db]
    /\ UNCHANGED <<db, review_id, idx, update_count, tx, conga, review_seq,
                   history, fetched, client, fnVars>>

ReceiveRead(r) ==
    /\ pc[r] = "idle"
    /\ \E q \in ReadRequests : EnterRead(r, q)

\* pg:   version_param = version.lower()
\* orch: version = (req.params.get("version") or "latest").strip();
\*       version_param = version.lower()
VersionParam(q) ==
    IF q.impl = "orch"
    THEN lower(strip(IF q.version = <<>> THEN Latest ELSE q.version))
    ELSE lower(q.version)

\* "Determine requested version": latest, or int(version_param) handed to
\* get_version_by_number.  A ValueError of int() is caught by "except
\* ValueError" in the orchestrator (400) and by "except Exception" in the
\* PostgreSQL server (500).
ReadVersion(r) ==
    /\ pc[r] = "read_version"
    /\ LET q  == req[r][1]
           vp == VersionParam(q)
           found == IF vp = Latest THEN get_latest_version(db, q.document_id)
                    ELSE IF int(vp) = None THEN {}
                    ELSE get_version_by_number(db, q.document_id, int(vp)[1])
       IN  IF vp # Latest /\ int(vp) = None
           THEN /\ Return(r, ErrorResponse(IF q.impl = "orch" THEN 400
                                           ELSE 500))
                /\ UNCHANGED version
           ELSE IF found = {}
           THEN /\ Return(r, ErrorResponse(404))
                /\ UNCHANGED version
           ELSE /\ \E v \in found : version' = [version EXCEPT ![r] = Some(v)]
                /\ pc' = [pc EXCEPT ![r] = IF q.kind = "attributes"
                                           THEN "read_change" ELSE "read_rows"]
                /\ UNCHANGED response
    /\ UNCHANGED <<db, req, review_id, idx, update_count, tx, conga,
                   review_seq, startDb, history, nreq, fnVars, stepVars>>

\* change_data = await compute_changed_in_version_number(document_id)
ReadChange(r) ==
    /\ pc[r] = "read_change"
    /\ LET q == req[r][1]
       IN  \E latest \in FetchOne(get_latest_version(db, q.document_id)) :
              change_data' = [change_data EXCEPT ![r] =
                  Some(Attribution(q.impl, db, q.document_id, latest))]
    /\ pc' = [pc EXCEPT ![r] = "read_rows"]
    /\ UNCHANGED <<db, req, version, review_id, idx, update_count, tx,
                   response, conga, review_seq, startDb, history, nreq,
                   fetched, client, fnVars>>

\* SELECT ... FROM extracted_fields WHERE document_id = %s AND version_id = %s
\* ORDER BY attribute_key: the rows, which their keys put in order
SelectAttributes(d, document_id, version_id) ==
    {e \in d.extracted_fields :
        e.document_id = document_id /\ e.version_id = version_id}

\* the 200 answer of get_attributes (with includeVersion) and of
\* export_attributes (format=json)
ReadResponse(q, v, rows, change) ==
    IF q.kind = "attributes"
    THEN [status |-> 200, documentId |-> q.document_id,
          effectiveVersionNumber |-> v.versionNumber,
          latestVersionNumber |-> change.latestVersionNumber,
          attributes |->
             {[rowId |-> e.row_id, id |-> e.attribute_key,
               extractedValue |-> e.field_value,
               correctedValue |-> e.corrected_value,
               changedInVersionNumber |->
                  IF e.attribute_key \in DOMAIN change.changedIn
                  THEN change.changedIn[e.attribute_key] ELSE 1,
               latestVersionNumber |-> change.latestVersionNumber] :
              e \in rows}]
    ELSE [status |-> 200,
          attributes |->
             {[id |-> e.attribute_key, extractedValue |-> e.field_value,
               correctedValue |-> e.corrected_value] : e \in rows}]

\* "Fetch attributes for requested version" and the answer
ReadRows(r) ==
    /\ pc[r] = "read_rows"
    /\ LET q == req[r][1]
           v == version[r][1]
       IN  Return(r, ReadResponse(q, v,
                      SelectAttributes(db, q.document_id, v.id),
                      IF q.kind = "attributes" THEN change_data[r][1]
                      ELSE [changedIn |-> <<>>, latestVersionNumber |-> 0]))
    /\ UNCHANGED <<db, req, version, review_id, idx, update_count, tx, conga,
                   review_seq, startDb, history, nreq, fnVars, stepVars>>

\* a query of the read handler raises: "except Exception" answers 500 (pg);
\* the exception leaves the handler and the host answers 500 (orch); with a
\* version parameter that int() rejects no query is made
ReadFail(r) ==
    /\ pc[r] \in {"read_version", "read_change", "read_rows"}
    /\ pc[r] = "read_version" =>
          \/ VersionParam(req[r][1]) = Latest
          \/ int(VersionParam(req[r][1])) # None
    /\ Return(r, ErrorResponse(500))
    /\ UNCHANGED <<db, req, version, review_id, idx, update_count, tx, conga,
                   review_seq, startDb, history, nreq, fnVars, stepVars>>

-----------------------------------------------------------------------------
(* The versionNumber of a review submitted to the orchestrator, as the JSON *)
(* body carries it.                                                         *)

\* null, integers, strings, a number with a fraction (1.5), a list
JsonVersionNumbers ==
    {[type |-> "null"], [type |-> "list"],
     [type |-> "float", floor |-> 1]}
    \cup {[type |-> "int", int |-> n] : n \in 1..NVer}
    \cup {[type |-> "str", str |-> s] : s \in VersionStringsUpTo(MaxLen)}

\* int(version_number): the value, or the exception it raises
IntOfJson(j) ==
    IF j.type = "int" THEN [raises |-> "", value |-> Some(j.int)]
    ELSE IF j.type = "float" THEN [raises |-> "", value |-> Some(j.floor)]
    ELSE IF j.type = "list" THEN [raises |-> "TypeError", value |-> None]
    ELSE IF int(j.str) = None THEN [raises |-> "ValueError", value |-> None]
    ELSE [raises |-> "", value |-> int(j.str)]

\* the handler answers before it has resolved anything
Reject(r, q, status) ==
    /\ nreq' = nreq + 1
    /\ req' = [req EXCEPT ![r] = Some([q EXCEPT !.no = nreq + 1])]
    /\ version' = [version EXCEPT ![r] = None]
    /\ startDb' = [startDb EXCEPT ![r] = db]
    /\ Return(r, ErrorResponse(status))
    /\ UNCHANGED <<db, review_id, idx, update_count, tx, conga, review_seq,
                   history, fnVars, stepVars>>

\* _handle_save_review up to "version = await _get_version_by_number(
\* document_id, int(version_number))": a ValueError of int() is answered
\* with 400; a TypeError leaves the handler and the host answers 500
ReceiveReview(r) ==
    /\ pc[r] = "idle"
    /\ \E j \in JsonVersionNumbers, d \in {"D1", "D0"} :
          LET n == IF j.type = "null" THEN [raises |-> "", value |-> None]
                   ELSE IntOfJson(j)
              q == [impl |-> "orch", document_id |-> d,
                    versionNumber |-> n.value, versionNumberJson |-> j,
                    reviewedBy |-> "alice", status |-> "Approved",
                    attributes |-> <<[id |-> "rate",
                                      correctedValue |-> <<"7">>,
                                      rowId |-> Null]>>,
                    no |-> 0]
          IN  IF n.raises = "ValueError" THEN Reject(r, q, 400)
              ELSE IF n.raises = "TypeError" THEN Reject(r, q, 500)
              ELSE Enter(r, q)

-----------------------------------------------------------------------------
(* Specification of the version parameter: one request, a read of the       *)
(* attributes or of the export with any version parameter, or a review      *)
(* submitted to the orchestrator with any versionNumber, over the seeded    *)
(* database.                                                                *)

NextRead ==
    \E r \in Reqs :
        \/ ReceiveRead(r)
        \/ ReadVersion(r)
        \/ ReadChange(r)
        \/ ReadRows(r)
        \/ ReadFail(r)
        \/ ReceiveReview(r)
        \/ Resolve(r)
        \/ Begin(r)
        \/ ApplyCorrection(r)
        \/ UpdateDocument(r)
        \/ Commit(r)
        \/ \E how \in {"error", "cancelled"} : Fail(r, how)
        \/ \E ok \in BOOLEAN : GetCongaClient(r, ok)
        \/ \E mode \in {"sync", "async", "disabled"} : Notify(r, mode)
        \/ NotifyRaises(r)
        \/ Respond(r)

SpecRead == Init /\ [][NextRead]_vars

-----------------------------------------------------------------------------
(* Specification of concurrent requests: two handlers of the PostgreSQL     *)
(* server (two worker processes), each with a connection of its own, merge  *)
(* corrections into the latest version of D1 or read its attributes.  The   *)
(* loop's pass is taken in its two steps, the SELECTs and the UPDATE with   *)
(* the INSERT, since the other handler may run between them.                *)

ConcCorrections ==
    {[id |-> "rate", correctedValue |-> <<"7">>, rowId |-> Null],
     [id |-> "rate", correctedValue |-> <<"8">>, rowId |-> Null],
     [id |-> "term", correctedValue |-> <<"7">>, rowId |-> Null]}

\* reviews of one or two corrections of the latest version of D1
ConcRequests ==
    {[impl |-> "pg", document_id |-> "D1", versionNumber |-> None,
      reviewedBy |-> "alice", status |-> "Approved", attributes |-> a,
      no |-> 0] :
        a \in {<<c>> : c \in ConcCorrections}
              \cup {<<c, d>> : c \in ConcCorrections, d \in ConcCorrections}}

\* the reviewer whose reviews go to handler r
Reviewer(r) == IF r = 1 THEN "alice" ELSE "bob"

ReceiveConc(r) ==
    /\ pc[r] = "idle"
    /\ \E q \in ConcRequests : Enter(r, [q EXCEPT !.reviewedBy = Reviewer(r)])

\* GET /api/documents/D1/attributes?version=latest
ReceiveConcRead(r) ==
    /\ pc[r] = "idle"
    /\ EnterRead(r, [impl |-> "pg", kind |-> "attributes",
                     document_id |-> "D1", version |-> Latest, no |-> 0])

\* "if not attr.id: continue", or the two SELECTs of the pass: existing and
\* original are taken from the row as committed, or as this transaction wrote
\* it (field_value, which nothing writes, is the same in both SELECTs)
SelectExisting(r) ==
    /\ pc[r] = "loop"
    /\ idx[r] <= Len(LoopItems(req[r][1]))
    /\ LET q    == req[r][1]
           v    == version[r][1]
           item == LoopItems(q)[idx[r]]
           found == SelectByRowId(TxView(db, tx[r]), RowIdOf(item, v.id), v.id)
       IN  IF item.id = ""
           THEN /\ idx' = [idx EXCEPT ![r] = @ + 1]
                /\ UNCHANGED <<pc, fetched>>
           ELSE /\ \E existing \in IF found = {} THEN {None}
                                   ELSE {Some(e) : e \in found} :
                      fetched' = [fetched EXCEPT ![r] = existing]
                /\ pc' = [pc EXCEPT ![r] = "update"]
                /\ UNCHANGED idx
    /\ UNCHANGED <<db, req, version, review_id, update_count, tx, response,
                   conga, review_seq, startDb, history, nreq, change_data,
                   client, fnVars>>

\* the UPDATE of the pass, once no other transaction holds the row, and the
\* INSERT INTO reviewed_fields with what the SELECTs had returned
UpdateCorrection(r) ==
    /\ pc[r] = "update"
    /\ LET q    == req[r][1]
           v    == version[r][1]
           item == LoopItems(q)[idx[r]]
           u    == UpdateByRowId(RowIdOf(item, v.id), v.id,
                                 item.correctedValue)
       IN  /\ ~RowLockedByOther(r, u)
           /\ TxWrite(r, [tx[r] EXCEPT
                  !.corrected = Append(@, u),
                  !.reviewed_fields = @ \o
                      ReviewedFieldsInsert(review_id[r], q, v, item,
                                           fetched[r])])
    /\ idx' = [idx EXCEPT ![r] = @ + 1]
    /\ fetched' = [fetched EXCEPT ![r] = None]
    /\ pc' = [pc EXCEPT ![r] = "loop"]
    /\ UNCHANGED <<req, version, review_id, update_count, response, conga,
                   review_seq, startDb, history, nreq, change_data, client,
                   fnVars>>

NextConc ==
    \E r \in Handlers :
        \/ ReceiveConc(r)
        \/ ReceiveConcRead(r)
        \/ Resolve(r)
        \/ Begin(r)
        \/ SelectExisting(r)
        \/ UpdateCorrection(r)
        \/ UpdateDocument(r)
        \/ Commit(r)
        \/ \E how \in {"error", "cancelled"} : Fail(r, how)
        \/ \E ok \in BOOLEAN : GetCongaClient(r, ok)
        \/ \E mode \in {"sync", "async", "disabled"} : Notify(r, mode)
        \/ Respond(r)
        \/ ReadVersion(r)
        \/ ReadChange(r)
        \/ ReadRows(r)
        \/ ReadFail(r)

SpecConc == Init /\ [][NextConc]_vars

-----------------------------------------------------------------------------
(* Specification of the Conga client: the singleton is constructed from    *)
(* the environment and is handed up to MaxCalls postbacks, one after the   *)
(* other (CongaClient.post_review of the PostgreSQL server's package, and  *)
(* CongaClient.send_review_async of the function app's package).           *)

\* the postbacks of merges into the versions of D1
CongaPayloads ==
    {CongaPayload([no |-> 0, document_id |-> "D1"], v, 1, "queued") :
        v \in {w \in SeedDb.document_versions : w.documentId = "D1"}}

\* what one HTTP attempt may end with: a 2xx answer whose body is empty or
\* JSON; a 2xx answer whose body is not JSON (response.json() raises
\* ValueError); raise_for_status() raising httpx.HTTPStatusError; the post
\* raising httpx.RequestError (no connection, timeout)
AttemptOutcomes == {"success", "success_not_json", "status_error",
                    "request_error"}

\* get_conga_client(): CongaClient.__init__ reads CONGA_ENABLED, CONGA_MOCK
\* and CONGA_RETRY_COUNT
CongaClientInit ==
    /\ client.pc = "new"
    /\ \E package \in {"pg", "fn"}, enabled \in BOOLEAN, mock \in BOOLEAN,
          retry_count \in 0..MaxRetry :
          client' = [client EXCEPT !.pc = "idle", !.package = package,
                                   !.enabled = enabled, !.mock = mock,
                                   !.retry_count = retry_count]
    /\ UNCHANGED <<db, pc, req, version, review_id, idx, update_count, tx,
                   response, conga, review_seq, startDb, history, nreq,
                   fetched, change_data, fnVars>>

\* post_review(payload) / send_review_async(...) up to the retry loop:
\* "if not self.enabled" returns skipped; "if self.mock" appends a line to
\* the output file (wrote) or catches the exception of doing so; otherwise
\* the loop "for attempt in range(self.retry_count + 1)" is entered
post_review(payload) ==
    /\ client.pc \in {"idle", "returned"}
    /\ client.calls < MaxCalls
    /\ conga' = Append(conga, payload)
    /\ LET called == [client EXCEPT !.calls = @ + 1, !.attempt = 0,
                                    !.posts = 0, !.succeeded = FALSE]
       IN  IF ~client.enabled
           THEN client' = [called EXCEPT
                    !.pc = "returned",
                    !.result = [kind |-> "skipped", success |-> "absent",
                                attempts |-> 0]]
           ELSE IF client.mock
           THEN \E wrote \in BOOLEAN :
                  client' = [called EXCEPT
                    !.pc = "returned",
                    !.file = IF wrote THEN @ + 1 ELSE @,
                    !.result = [kind |-> "mocked",
                                success |-> IF wrote THEN "true" ELSE "false",
                                attempts |-> 0]]
           ELSE client' = [called EXCEPT !.pc = "attempt"]
    /\ UNCHANGED <<db, pc, req, version, review_id, idx, update_count, tx,
                   response, review_seq, startDb, history, nreq, fetched,
                   change_data, fnVars>>

\* one pass of the retry loop: client.post, raise_for_status and the return
\* of the success result, or one of the two except clauses of the loop, or
\* (response.json() raising) the "except Exception" around the loop
Attempt(outcome) ==
    /\ client.pc = "attempt"
    /\ client.attempt <= client.retry_count
    /\ client' =
          IF outcome = "success"
          THEN [client EXCEPT
                   !.posts = @ + 1, !.succeeded = TRUE, !.pc = "returned",
                   !.result = [kind |-> "real", success |-> "true",
                               attempts |-> client.attempt + 1]]
          ELSE IF outcome = "success_not_json"
          THEN [client EXCEPT
                   !.posts = @ + 1, !.succeeded = TRUE, !.pc = "returned",
                   !.result = [kind |-> "real", success |-> "false",
                               attempts |-> 0]]
          ELSE [client EXCEPT !.posts = @ + 1, !.attempt = @ + 1]
    /\ UNCHANGED <<db, pc, req, version, review_id, idx, update_count, tx,
                   response, conga, review_seq, startDb, history, nreq,
                   fetched, change_data, fnVars>>

\* "All retries exhausted": the loop has ended without a return
Exhausted ==
    /\ client.pc = "attempt"
    /\ client.attempt > client.retry_count
    /\ client' = [client EXCEPT
                     !.pc = "returned",
                     !.result = [kind |-> "real", success |-> "false",
                                 attempts |-> client.retry_count + 1]]
    /\ UNCHANGED <<db, pc, req, version, review_id, idx, update_count, tx,
                   response, conga, review_seq, startDb, history, nreq,
                   fetched, change_data, fnVars>>

NextConga ==
    \/ CongaClientInit
    \/ \E payload \in CongaPayloads : post_review(payload)
    \/ \E outcome \in AttemptOutcomes : Attempt(outcome)
    \/ Exhausted

SpecConga == Init /\ [][NextConga]_vars

-----------------------------------------------------------------------------
(* Properties of normalize_value (SpecNorm).                                *)

\* a null column counts as the empty string
TextOf(v) == IF v = Null THEN <<>> ELSE v

\* s is empty or holds whitespace only
Blank(s) == \A k \in 1..Len(s) : s[k] \in Whitespace

\* t is s without its leading and trailing whitespace
IsTrimOf(t, s) ==
    /\ \E i \in 0..Len(s), j \in 0..Len(s) :
          /\ i + Len(t) + j = Len(s)
          /\ \A k \in 1..i : s[k] \in Whitespace
          /\ \A k \in 1..j : s[Len(s) + 1 - k] \in Whitespace
          /\ \A k \in 1..Len(t) : t[k] = s[i + k]
    /\ t # <<>> => (t[1] \notin Whitespace /\ t[Len(t)] \notin Whitespace)

\* C7: the effective value is the trimmed correctedValue when that is not
\* blank, otherwise the trimmed extractedValue; null counts as the empty
\* string and the characters are kept as they are (no case folding).
C7_EffectiveValue ==
    normalized # None =>
        LET corrected == TextOf(row.correctedValue)
            extracted == TextOf(row.extractedValue)
        IN  IF ~Blank(corrected)
            THEN IsTrimOf(normalized[1].value, corrected)
            ELSE IsTrimOf(normalized[1].value, extracted)

\* a whitespace-only correctedValue fell back to an extractedValue that was
\* trimmed and kept its upper-case letter
C7_Witness ==
    /\ normalized # None
    /\ row.correctedValue = <<" ">>
    /\ row.extractedValue = <<" ", "A">>
    /\ normalized[1].value = <<"A">>

-----------------------------------------------------------------------------
(* Properties of change attribution (SpecAttr).                             *)

\* the effective value of a stored record
Effective(ef) ==
    normalize_value([correctedValue |-> ef.corrected_value,
                     extractedValue |-> ef.field_value])

\* the history of key: its records in the document's versions 1..up_to,
\* each with its version number
KeyHistory(d, document_id, key, up_to) ==
    {<<p[1].versionNumber, p[2]>> :
        p \in {q \in d.document_versions \X d.extracted_fields :
                  /\ q[1].documentId = document_id
                  /\ q[1].versionNumber <= up_to
                  /\ q[2].version_id = q[1].id
                  /\ q[2].document_id = document_id
                  /\ q[2].attribute_key = key}}

\* the keys with at least one record in versions 1..up_to
HistoryKeys(d, document_id, up_to) ==
    {e.attribute_key : e \in {f \in d.extracted_fields :
        KeyHistory(d, document_id, f.attribute_key, up_to) # {}
        /\ f.document_id = document_id}}

\* q is the record before p in the history h
Before(h, q, p) ==
    /\ q[1] < p[1]
    /\ \A o \in h : o[1] < p[1] => o[1] <= q[1]

\* the records of h whose effective value differs from the record before
Differing(h) ==
    {p \in h : \E q \in h : Before(h, q, p) /\ Effective(q[2]) # Effective(p[2])}

\* the version of the last differing record, or of the first record
LastDiffering(h) ==
    LET versions == IF Differing(h) = {} THEN {p[1] : p \in h}
                    ELSE {p[1] : p \in Differing(h)}
    IN  IF Differing(h) = {}
        THEN CHOOSE n \in versions : \A m \in versions : n <= m
        ELSE CHOOSE n \in versions : \A m \in versions : n >= m

\* C4: for the PostgreSQL server and the orchestrator, changedIn has exactly
\* the keys with a record in versions 1..upTo, and maps each to the version
\* of the last record differing from the record before it, or to the first
\* record's version when none differs.
C4_LastDifferingVersion ==
    (changed # None /\ changed[1].by \in {"pg", "orch"}) =>
        LET res   == changed[1].result
            up_to == res.latestVersionNumber
        IN  /\ DOMAIN res.changedIn = HistoryKeys(db, "D1", up_to)
            /\ \A key \in DOMAIN res.changedIn :
                  res.changedIn[key] =
                      LastDiffering(KeyHistory(db, "D1", key, up_to))

\* rate is 5, 5, 7 over v1..v3 and version 3 is the latest: changedIn is 3
C4_Witness ==
    /\ changed # None
    /\ changed[1].by = "pg"
    /\ changed[1].result.latestVersionNumber = 3
    /\ {<<p[1], Effective(p[2])>> : p \in KeyHistory(db, "D1", "rate", 3)}
         = {<<1, <<"5">>>>, <<2, <<"5">>>>, <<3, <<"7">>>>}
    /\ changed[1].result.changedIn["rate"] = 3

\* C5: for the two FastAPI servers and the orchestrator, every changedIn[key]
\* is a version at which the key has a record and is at most the returned
\* latestVersionNumber.
C5_ChangedInIsRecordedVersion ==
    (changed # None /\ changed[1].by \in {"pg", "sqlite", "orch"}) =>
        LET res == changed[1].result
        IN  \A key \in DOMAIN res.changedIn :
               /\ res.changedIn[key] <= res.latestVersionNumber
               /\ \E p \in KeyHistory(db, "D1", key, NVer) :
                     p[1] = res.changedIn[key]

\* rate has records in versions 1 and 3 only, they differ, 3 is the latest
C5_Witness ==
    /\ changed # None
    /\ changed[1].by = "sqlite"
    /\ changed[1].result.latestVersionNumber = 3
    /\ {p[1] : p \in KeyHistory(db, "D1", "rate", NVer)} = {1, 3}
    /\ changed[1].result.changedIn["rate"] = 3

\* C6: in function_app, a key with exactly one record has changedIn equal to
\* that record's version, and a key with several records has changedIn equal
\* to a version at which it has a record.
C6_FunctionAppRecordedVersion ==
    (changed # None /\ changed[1].by = "fn") =>
        LET res == changed[1].result
        IN  \A key \in DOMAIN res.changedIn :
               LET h == KeyHistory(db, "D1", key, res.latestVersionNumber)
               IN  /\ Cardinality(h) = 1 =>
                          \A p \in h : res.changedIn[key] = p[1]
                   /\ Cardinality(h) > 1 =>
                          \E p \in h : res.changedIn[key] = p[1]

\* C22: a record that follows a gap (versions without a record of the key)
\* and has the effective value of the record before the gap is not the
\* version changedIn names; a key with records in versions 1 and 3 only, of
\* equal effective values, has changedIn 1.
C22_GapKeepsBaseline ==
    changed # None =>
        LET res   == changed[1].result
            up_to == res.latestVersionNumber
        IN  \A key \in DOMAIN res.changedIn :
               LET h == KeyHistory(db, "D1", key, up_to)
               IN  /\ \A p \in h : \A q \in h :
                         (/\ Before(h, q, p)
                          /\ q[1] < p[1] - 1
                          /\ Effective(q[2]) = Effective(p[2])) =>
                             res.changedIn[key] # p[1]
                   /\ (/\ {p[1] : p \in h} = {1, 3}
                       /\ \A p \in h : \A q \in h :
                             Effective(p[2]) = Effective(q[2])) =>
                          res.changedIn[key] = 1

\* rate is 5 in version 1 and, corrected, in version 3, version 2 has no
\* rate, version 3 is the latest: the orchestrator's changedIn is 1
C22_Witness ==
    /\ changed # None
    /\ changed[1].by = "orch"
    /\ changed[1].result.latestVersionNumber = 3
    /\ {<<p[1], Effective(p[2])>> : p \in KeyHistory(db, "D1", "rate", 3)}
         = {<<1, <<"5">>>>, <<3, <<"5">>>>}
    /\ changed[1].result.changedIn["rate"] = 1

\* C23: attribution returns as latestVersionNumber the number of the version
\* flagged isLatest, or 1 when the document has none; changedIn has exactly
\* the keys with a record in versions 1..upTo, and the result is the one
\* computed without the records of the versions above upTo.
C23_AttributionUpToLatest ==
    changed # None =>
        LET res     == changed[1].result
            flagged == {v \in db.document_versions :
                           v.documentId = "D1" /\ v.isLatest}
        IN  \E latest \in FetchOne(flagged) :
               LET up_to == IF latest = None THEN 1
                            ELSE latest[1].versionNumber
                   below ==
                       [db EXCEPT !.extracted_fields =
                           {e \in @ :
                               \E v \in db.document_versions :
                                   /\ v.id = e.version_id
                                   /\ v.versionNumber <= up_to}]
               IN  /\ res.latestVersionNumber = up_to
                   /\ DOMAIN res.changedIn = HistoryKeys(db, "D1", up_to)
                   /\ res = Attribution(changed[1].by, below, "D1", latest)

\* no version of D1 is flagged latest; rate differs between versions 1 and
\* 2 and term exists in version 2 only: changedIn is {rate: 1}
C23_Witness ==
    /\ changed # None
    /\ changed[1].by = "pg"
    /\ \A v \in db.document_versions : v.documentId = "D1" => ~v.isLatest
    /\ \E p \in KeyHistory(db, "D1", "term", NVer) : p[1] = 2
    /\ \E p \in KeyHistory(db, "D1", "rate", NVer) :
       \E q \in KeyHistory(db, "D1", "rate", NVer) :
          p[1] = 1 /\ q[1] = 2 /\ Effective(p[2]) # Effective(q[2])
    /\ changed[1].result.latestVersionNumber = 1
    /\ DOMAIN changed[1].result.changedIn = {"rate"}
    /\ changed[1].result.changedIn["rate"] = 1

-----------------------------------------------------------------------------
(* Properties of the review merge (Spec).                                   *)

\* request r's merge has committed
Committed(r) ==
    /\ req[r] # None
    /\ \E j \in 1..Len(history) : history[j].no = req[r][1].no

\* request r is handled by save_review of the PostgreSQL server or by
\* _handle_save_review of the orchestrator
Audited(r) == req[r] # None /\ req[r][1].impl \in {"pg", "orch"}

\* the correction attr names a record of version v in database d
MatchesRecord(d, attr, v) ==
    /\ attr.id # ""
    /\ \E e \in d.extracted_fields :
          e.version_id = v.id /\ e.row_id = RowIdOf(attr, v.id)

\* the positions of the audit rows of merge rid for key
AuditRows(d, rid, key) ==
    {n \in 1..Len(d.reviewed_fields) :
        /\ d.reviewed_fields[n].review_id = rid
        /\ d.reviewed_fields[n].attribute_key = key}

\* C1: a merge of the PostgreSQL server or of the orchestrator that ended
\* without committing (a statement failed, or the request was cancelled) has
\* left no correctedValue changed, no ReviewSession and no ReviewedField row,
\* and the Document as it was.
C1_RollbackLeavesNothing ==
    \A r \in Reqs :
        (Audited(r) /\ version[r] # None /\ pc[r] = "done" /\ ~Committed(r)) =>
            /\ db.extracted_fields = startDb[r].extracted_fields
            /\ db.review_sessions = startDb[r].review_sessions
            /\ db.reviewed_fields = startDb[r].reviewed_fields
            /\ db.documents = startDb[r].documents

\* the orchestrator's merge was cancelled after the first of two corrections
\* had been applied to rate in version 2
C1_Witness ==
    \E r \in Reqs :
        /\ Audited(r) /\ req[r][1].impl = "orch"
        /\ pc[r] = "done" /\ ~Committed(r)
        /\ response[r] = None
        /\ version[r] = Some(DocumentVersion("v2", "D1", 2, TRUE, "s2"))
        /\ review_id[r] # 0
        /\ Len(req[r][1].attributes) = 2
        /\ req[r][1].attributes[1].id = "rate"
        /\ req[r][1].attributes[1].rowId = Null
        /\ idx[r] = 2

\* C2: in a committed merge, the audit rows of each key are as many as the
\* corrections of that key that name a record of the target version (none
\* for a correction that names no record), the records no correction names
\* are unchanged, and each named record holds the last value given for it.
C2_UnmatchedCorrectionWritesNothing ==
    \A r \in Reqs :
        (Audited(r) /\ Committed(r)) =>
            LET q      == req[r][1]
                v      == version[r][1]
                before == startDb[r]
                named(e) == {i \in 1..Len(q.attributes) :
                                /\ q.attributes[i].id # ""
                                /\ e.version_id = v.id
                                /\ e.row_id = RowIdOf(q.attributes[i], v.id)}
            IN  /\ \A key \in {q.attributes[i].id : i \in 1..Len(q.attributes)}
                                \ {""} :
                       Cardinality(AuditRows(db, review_id[r], key)) =
                       Cardinality({i \in 1..Len(q.attributes) :
                           /\ q.attributes[i].id = key
                           /\ MatchesRecord(before, q.attributes[i], v)})
                /\ \A e \in before.extracted_fields :
                       IF named(e) = {} THEN e \in db.extracted_fields
                       ELSE LET last == CHOOSE i \in named(e) :
                                            \A o \in named(e) : o <= i
                            IN  [e EXCEPT !.corrected_value =
                                    q.attributes[last].correctedValue]
                                    \in db.extracted_fields

\* C3: when a merge is followed by a merge of the same correction list on
\* the same target version by the same kind of server, every record's
\* correctedValue after the second equals its value after the first, and for
\* each correction that names a record the audit log holds a row of the
\* first and a row of the second submission.
C3_ResubmissionIsIdempotent ==
    \A j \in 2..Len(history) :
        LET first  == history[j - 1]
            second == history[j]
        IN  (/\ first.attributes = second.attributes
             /\ first.version_id = second.version_id
             /\ first.audited = second.audited) =>
                /\ second.after = first.after
                /\ first.audited =>
                      \A i \in 1..Len(first.attributes) :
                      \A m \in {first, second} :
                         LET attr == first.attributes[i]
                         IN  MatchesRecord(db, attr, [id |-> m.version_id]) =>
                                \E n \in AuditRows(db, m.review_id, attr.id) :
                                    db.reviewed_fields[n].new_corrected_value
                                        = attr.correctedValue

\* rate -> 7 was submitted twice to the PostgreSQL server: two audit rows,
\* the second with old value 7, and rate still 7
C3_Witness ==
    /\ Len(history) = 2
    /\ history[1].attributes = history[2].attributes
    /\ history[1].version_id = history[2].version_id
    /\ history[1].audited /\ history[2].audited
    /\ Len(history[1].attributes) = 1
    /\ history[1].attributes[1].id = "rate"
    /\ history[1].attributes[1].correctedValue = <<"7">>
    /\ Len(db.reviewed_fields) = 2
    /\ db.reviewed_fields[1].review_id # db.reviewed_fields[2].review_id
    /\ db.reviewed_fields[2].old_corrected_value = <<"7">>
    /\ history[2].after = history[1].after

\* C8: once a merge of the PostgreSQL server or of the orchestrator has
\* committed, the caller's answer is the successful merge result and the
\* committed state stays, whatever happens on the notification path.
C8_NotificationFailureIsIsolated ==
    \A r \in Reqs :
        (Audited(r) /\ Committed(r) /\ pc[r] = "done") =>
            /\ response[r] # None
            /\ response[r][1].status = 200
            /\ db.extracted_fields = history[Len(history)].after

\* C9: every postback handed to the Conga client, in any call mode, belongs
\* to a merge that has committed; a merge that ended in 404 or in a rollback
\* has none.
C9_NotifiedOnlyAfterCommit ==
    \A i \in 1..Len(conga) :
        \E j \in 1..Len(history) : history[j].no = conga[i].no

\* function_app handed over the postback of a first merge synchronously and
\* that of a second merge asynchronously, both after their commits
C9_Witness ==
    /\ Len(conga) = 2
    /\ conga[1].mode = "sync"
    /\ conga[2].mode = "async"
    /\ Len(history) = 2
    /\ \A r \in Reqs : req[r] # None /\ req[r][1].impl = "fn"

\* the versions a request's target names: the document's version of the
\* given number, or its version flagged latest when no number is given
TargetVersions(d, q) ==
    {v \in d.document_versions :
        /\ v.documentId = q.document_id
        /\ IF q.versionNumber # None THEN v.versionNumber = q.versionNumber[1]
           ELSE v.isLatest}

\* C10: a merge of the PostgreSQL server or of the orchestrator whose target
\* names no version never gets past resolution, answers 404 and writes
\* nothing: no ReviewSession, no ReviewedField row, no correctedValue, no
\* Document change.
C10_NotFoundWritesNothing ==
    \A r \in Reqs :
        (Audited(r) /\ TargetVersions(startDb[r], req[r][1]) = {}) =>
            /\ pc[r] \in {"resolve", "done"}
            /\ pc[r] = "done" => response[r] = Some(ErrorResponse(404))
            /\ db = startDb[r]
            /\ tx[r] = NoTx
            /\ conga = <<>> \/ conga[Len(conga)].no # req[r][1].no

\* the orchestrator answered 404 for D2, a document without a latest
\* version, on a request that carried a correction
C10_Witness ==
    \E r \in Reqs :
        /\ Audited(r) /\ req[r][1].impl = "orch"
        /\ req[r][1].document_id = "D2"
        /\ req[r][1].versionNumber = None
        /\ req[r][1].attributes # <<>>
        /\ pc[r] = "done"
        /\ response[r] = Some(ErrorResponse(404))

\* the versions whose records the committed merge of request r changed
ChangedVersions(r) ==
    {e.version_id : e \in startDb[r].extracted_fields \ db.extracted_fields}

\* C11: a committed merge has resolved the version its request names (the
\* version of the submitted versionNumber, or the one flagged latest when
\* none is submitted); its session, its audit rows, the records it changed
\* and the versionId/versionNumber of its answer are all of that version.
C11_WritesReferToResolvedVersion ==
    \A r \in Reqs :
        Committed(r) =>
            LET q  == req[r][1]
                T  == TargetVersions(startDb[r], q)
                id == {v.id : v \in T}
            IN  /\ T # {}
                /\ ChangedVersions(r) \subseteq id
                /\ \A s \in db.review_sessions :
                       s.review_id = review_id[r] => s.target_version_id \in id
                /\ \A n \in 1..Len(db.reviewed_fields) :
                       db.reviewed_fields[n].review_id = review_id[r] =>
                           db.reviewed_fields[n].target_version_id \in id
                /\ (response[r] # None /\ response[r][1].status = 200) =>
                       \E v \in T :
                          /\ response[r][1].versionId = v.id
                          /\ response[r][1].versionNumber = v.versionNumber

\* the versions of document_id flagged latest in database d
LatestVersions(d, document_id) ==
    {v \in d.document_versions : v.documentId = document_id /\ v.isLatest}

\* C12: no step of a review merge, whichever version it targets, takes a
\* document from exactly one version flagged latest to none or to several.
C12_OneLatestVersionPreserved ==
    [][\A doc \in db.documents :
          Cardinality(LatestVersions(db, doc.id)) = 1 =>
              Cardinality(LatestVersions(db', doc.id)) = 1]_vars

\* the PostgreSQL server committed two merges that name version 1 of D1, an
\* older version, and corrected rate there; D1 still has one latest version
C12_Witness ==
    /\ Len(history) = 2
    /\ \A j \in 1..2 : history[j].version_id = "v1" /\ history[j].audited
    /\ \E e \in db.extracted_fields :
          e.version_id = "v1" /\ e.corrected_value # Null
    /\ LatestVersions(db, "D1") = {DocumentVersion("v2", "D1", 2, TRUE, "s2")}

\* the Document row of request q in database d
DocumentOf(d, q) == {doc \in d.documents : doc.id = q.document_id}

\* C13: once a merge has committed, the Document holds the submitted status,
\* the submitted reviewer and the storageRef of the version the merge
\* resolved; until then neither the Document nor any correctedValue differs
\* from what the request found (the writes commit together or not at all).
C13_DocumentWrittenWithCorrections ==
    \A r \in Reqs :
        (req[r] # None /\ version[r] # None) =>
            LET q == req[r][1]
                v == version[r][1]
            IN  IF Committed(r)
                THEN \A doc \in DocumentOf(db, q) :
                        /\ doc.status = q.status
                        /\ doc.reviewedby = q.reviewedBy
                        /\ doc.storageref = v.storageRef
                ELSE /\ db.documents = startDb[r].documents
                     /\ db.extracted_fields = startDb[r].extracted_fields

\* the rows the merge of request r has added to its server's audit table,
\* those of the SQLite server's attribute_reviews under the column names of
\* reviewed_fields
AuditLog(r) ==
    IF req[r][1].impl = "sqlite"
    THEN LET added == SubSeq(db.attribute_reviews,
                             Len(startDb[r].attribute_reviews) + 1,
                             Len(db.attribute_reviews))
         IN  [n \in DOMAIN added |->
                 [attribute_key |-> added[n].attributeKey,
                  old_corrected_value |-> added[n].oldCorrectedValue,
                  new_corrected_value |-> added[n].newCorrectedValue]]
    ELSE SubSeq(db.reviewed_fields, Len(startDb[r].reviewed_fields) + 1,
                Len(db.reviewed_fields))

\* the corrections of request r that name a record of its target version
MatchedCorrections(r) ==
    {i \in 1..Len(req[r][1].attributes) :
        MatchesRecord(startDb[r], req[r][1].attributes[i], version[r][1])}

\* what the audit row of the matched correction i of request r has to hold:
\* the key, the record's extracted value, the record's correctedValue as the
\* corrections before i left it, and the submitted value
ExpectedAudit(r, i) ==
    LET attrs == req[r][1].attributes
        v     == version[r][1]
        e     == CHOOSE x \in startDb[r].extracted_fields :
                     x.version_id = v.id /\ x.row_id = RowIdOf(attrs[i], v.id)
        earlier == {j \in 1..(i - 1) :
                       /\ attrs[j].id # ""
                       /\ RowIdOf(attrs[j], v.id) = e.row_id}
    IN  [attribute_key |-> attrs[i].id,
         original_value |-> e.field_value,
         old_corrected_value |->
             IF earlier = {} THEN e.corrected_value
             ELSE attrs[CHOOSE j \in earlier : \A o \in earlier : o <= j]
                      .correctedValue,
         new_corrected_value |-> attrs[i].correctedValue]

\* the audit row a holds the values x
HoldsAudit(a, x) ==
    /\ DOMAIN x \subseteq DOMAIN a
    /\ \A f \in DOMAIN x : a[f] = x[f]

\* C14: in a committed merge of a server that keeps an audit table (all but
\* function_app), each correction that names a record has its
\* own audit row (as many rows with its values as there are corrections with
\* these values, also when old and new value are equal); the row holds the
\* record's extracted value as originalValue, the record's correctedValue
\* just before this correction (an earlier correction of the batch included)
\* as oldCorrectedValue, and the submitted value as newCorrectedValue.
C14_OneAuditRowPerMatchedCorrection ==
    \A r \in Reqs :
        (Committed(r) /\ req[r][1].impl # "fn") =>
            \A i \in MatchedCorrections(r) :
                Cardinality({n \in DOMAIN AuditLog(r) :
                                HoldsAudit(AuditLog(r)[n], ExpectedAudit(r, i))})
                = Cardinality({j \in MatchedCorrections(r) :
                                  ExpectedAudit(r, j) = ExpectedAudit(r, i)})

\* the sequence s starts with the sequence p
IsPrefix(p, s) == Len(p) <= Len(s) /\ SubSeq(s, 1, Len(p)) = p

\* C15: no step of a merge, committing or rolling back, updates or deletes a
\* committed audit row: the committed rows stay, in place and unchanged, and
\* new rows only come after them.
C15_AuditRowsAppendOnly ==
    [][/\ IsPrefix(db.reviewed_fields, db'.reviewed_fields)
       /\ IsPrefix(db.attribute_reviews, db'.attribute_reviews)]_vars

\* a first merge committed an audit row; the same request, submitted again,
\* applied its correction and was rolled back with a 500: the row is there
C15_Witness ==
    \E r \in Reqs :
        /\ Audited(r)
        /\ Len(history) = 1 /\ nreq = 2
        /\ pc[r] = "done" /\ ~Committed(r)
        /\ response[r] = Some(ErrorResponse(500))
        /\ idx[r] = 2
        /\ Len(db.reviewed_fields) = 1
        /\ db.reviewed_fields[1].review_id = history[1].review_id
        /\ review_id[r] # history[1].review_id

\* the ReviewSession rows the merge of request r has committed
NewSessions(r) == db.review_sessions \ startDb[r].review_sessions

\* C16: a committed merge of the PostgreSQL server or of the orchestrator
\* has added exactly one ReviewSession, of the request's document, the
\* resolved version and the reviewer; each audit row of the merge carries
\* that session's id, and so do the answer and the postback.
C16_OneSessionPerMerge ==
    \A r \in Reqs :
        (Audited(r) /\ Committed(r)) =>
            LET q == req[r][1]
            IN  /\ Cardinality(NewSessions(r)) = 1
                /\ \A s \in NewSessions(r) :
                      /\ s.document_id = q.document_id
                      /\ s.target_version_id = version[r][1].id
                      /\ s.reviewer = q.reviewedBy
                      /\ \A n \in DOMAIN AuditLog(r) :
                            AuditLog(r)[n].review_id = s.review_id
                      /\ (response[r] # None /\ response[r][1].status = 200)
                            => response[r][1].reviewSessionId
                                   = ToString(s.review_id)
                      /\ \A i \in 1..Len(conga) :
                            conga[i].no = q.no =>
                                conga[i].reviewSessionId
                                    = ToString(s.review_id)

\* the orchestrator answered a resubmitted merge of two corrections: its
\* session is the second one, with two audit rows, and the postback went out
C16_Witness ==
    \E r \in Reqs :
        /\ Audited(r) /\ req[r][1].impl = "orch" /\ Committed(r)
        /\ Len(history) = 2
        /\ Cardinality(db.review_sessions) = 2
        /\ Len(AuditLog(r)) = 2
        /\ pc[r] = "done" /\ response[r] # None
        /\ response[r][1].status = 200
        /\ response[r][1].reviewSessionId = "2"
        /\ \E i \in 1..Len(conga) :
              conga[i].no = req[r][1].no /\ conga[i].reviewSessionId = "2"

\* the Document of request q points to the latest version of database d
PointsToLatest(d, q) ==
    \A doc \in DocumentOf(d, q) :
    \A l \in LatestVersions(d, q.document_id) :
        /\ doc.currentversionid = l.id
        /\ doc.currentversionnumber = l.versionNumber

-----------------------------------------------------------------------------
(* Properties of attribution after a merge (SpecMerged).                    *)

\* the record of key in version number n, if any
RecordAt(d, document_id, key, n) ==
    {p \in KeyHistory(d, document_id, key, n) : p[1] = n}

\* C20: a merge creates no version.  Attribution computed after a merge that
\* corrected key k on the latest version N returns latestVersionNumber N, as
\* it did before; changedIn[k] is N exactly when k has no earlier record or
\* the effective value the correction gives k on N differs from the
\* effective value of k's record immediately before, and is an earlier
\* version otherwise.
C20_AttributionAfterMerge ==
    \A r \in Reqs :
        (Committed(r) /\ changed # None) =>
            LET q   == req[r][1]
                v   == version[r][1]
                N   == v.versionNumber
                res == changed[1].result
            IN  /\ db.document_versions = startDb[r].document_versions
                /\ res.latestVersionNumber = N
                /\ res.latestVersionNumber =
                       compute_changed_in_version_number(
                           startDb[r], "D1", Some(v)).latestVersionNumber
                /\ \A i \in MatchedCorrections(r) :
                      LET k   == q.attributes[i].id
                          h   == KeyHistory(startDb[r], "D1", k, N)
                          old == CHOOSE p \in RecordAt(startDb[r], "D1", k, N) :
                                     TRUE
                          new == Effective([old[2] EXCEPT !.corrected_value =
                                               q.attributes[i].correctedValue])
                          stays == \/ \A p \in h : p[1] = N
                                   \/ \E p \in h :
                                         /\ Before(h, p, old)
                                         /\ Effective(p[2]) # new
                      IN  /\ stays <=> res.changedIn[k] = N
                          /\ ~stays => res.changedIn[k] < N

\* rate was 5, 5, 7 in versions 1..3 and was corrected to 8 in version 3:
\* attribution still gives changedIn 3 and latestVersionNumber 3
C20_Witness ==
    \E r \in Reqs :
        /\ Committed(r) /\ changed # None
        /\ {<<p[1], Effective(p[2])>> :
               p \in KeyHistory(startDb[r], "D1", "rate", 3)}
             = {<<1, <<"5">>>>, <<2, <<"5">>>>, <<3, <<"7">>>>}
        /\ req[r][1].attributes[1].id = "rate"
        /\ req[r][1].attributes[1].correctedValue = <<"8">>
        /\ \E p \in RecordAt(db, "D1", "rate", 3) : Effective(p[2]) = <<"8">>
        /\ changed[1].result.latestVersionNumber = 3
        /\ changed[1].result.changedIn["rate"] = 3

-----------------------------------------------------------------------------
(* Properties of the version parameter (SpecRead).                          *)

\* the string holds a character that is neither a digit nor whitespace
NotANumber(s) == \E k \in 1..Len(s) : s[k] \notin Digits \cup Whitespace

\* request q carries a version that is not an integer: a version parameter
\* other than latest with such a character, or a versionNumber that is such
\* a string, a number with a fraction, or a list
NonIntegerVersion(q) ==
    IF "kind" \in DOMAIN q
    THEN lower(strip(q.version)) # Latest /\ NotANumber(q.version)
    ELSE /\ "versionNumberJson" \in DOMAIN q
         /\ \/ q.versionNumberJson.type \in {"list", "float"}
            \/ /\ q.versionNumberJson.type = "str"
               /\ NotANumber(q.versionNumberJson.str)

\* C18: a request whose version is not an integer is answered with 400,
\* never with 500 or 404 (and never merged), and nothing is written.
C18_NonIntegerVersionIsInvalidInput ==
    \A r \in Reqs :
        (req[r] # None /\ NonIntegerVersion(req[r][1])) =>
            /\ pc[r] \in {"read_version", "done"}
            /\ pc[r] = "done" => response[r] = Some(ErrorResponse(400))
            /\ db = startDb[r]
            /\ tx[r] = NoTx

-----------------------------------------------------------------------------
(* Properties of concurrent requests (SpecConc).                            *)

\* the handlers whose merges have committed
CommittedMerges == {r \in Handlers : Committed(r)}

\* the AttributeRecords and Documents that the merge of handler r leaves when
\* it runs alone from database d: each record of the target version takes the
\* value of the last correction naming it, the document takes the request's
\* status and reviewer and the target version's storage reference
SerialRun(d, r) ==
    LET q == req[r][1]
        v == version[r][1]
        Naming(e) ==
            {i \in 1..Len(q.attributes) :
                /\ q.attributes[i].id # ""
                /\ e.version_id = v.id
                /\ e.row_id = RowIdOf(q.attributes[i], v.id)}
        LastNaming(e) ==
            CHOOSE i \in Naming(e) : \A j \in Naming(e) : j <= i
    IN  [d EXCEPT
            !.extracted_fields =
                {IF Naming(e) = {} THEN e
                 ELSE [e EXCEPT !.corrected_value =
                           q.attributes[LastNaming(e)].correctedValue] :
                    e \in @},
            !.documents =
                {IF doc.id = q.document_id
                 THEN [doc EXCEPT !.status = q.status,
                                  !.reviewedby = q.reviewedBy,
                                  !.storageref = v.storageRef]
                 ELSE doc : doc \in @}]

\* the databases that the merges of the handlers of set m leave when they run
\* one after the other, in every order
RECURSIVE SerialStates(_, _)
SerialStates(d, m) ==
    IF m = {} THEN {d}
    ELSE UNION {SerialStates(SerialRun(d, r), m \ {r}) : r \in m}

\* what a reader sees of a database: the correctedValue of each record of
\* the version it asked for
Observed(d, document_id, version_id) ==
    {<<e.row_id, e.corrected_value>> :
        e \in SelectAttributes(d, document_id, version_id)}

\* handler r has answered a read request with the attributes
HasRead(r) ==
    /\ req[r] # None
    /\ "kind" \in DOMAIN req[r][1]
    /\ pc[r] = "done"
    /\ response[r][1].status = 200

\* C17: with two handlers merging concurrently into the same version of one
\* document, the committed AttributeRecords and Document rows are at every
\* moment those that the committed merges leave when run one after the other
\* in some order, and the correctedValues a reader was answered with are those
\* of such a state, never those of a merge applied in part.
C17_ConcurrentMergesSerialize ==
    /\ \E s \in SerialStates(SeedDb, CommittedMerges) :
           /\ db.extracted_fields = s.extracted_fields
           /\ db.documents = s.documents
    /\ \A r \in Handlers :
           HasRead(r) =>
               \E m \in SUBSET CommittedMerges :
               \E s \in SerialStates(SeedDb, m) :
                   {<<a.rowId, a.correctedValue>> :
                       a \in response[r][1].attributes}
                     = Observed(s, req[r][1].document_id, version[r][1].id)

\* both handlers' merges have committed, the second to begin first, while the
\* first, which had corrected term already, waited to correct rate after it
C17_Witness ==
    /\ Len(history) = 2
    /\ history[1].review_id = 2
    /\ history[2].review_id = 1
    /\ \A r \in Handlers : pc[r] = "done" /\ Committed(r)
    /\ \E r \in Handlers :
           /\ review_id[r] = 1
           /\ Len(req[r][1].attributes) = 2
           /\ req[r][1].attributes[1].id = "term"
           /\ req[r][1].attributes[2].correctedValue = <<"7">>
    /\ \E r \in Handlers :
           /\ review_id[r] = 2
           /\ req[r][1].attributes = <<[id |-> "rate",
                                        correctedValue |-> <<"8">>,
                                        rowId |-> Null]>>

\* a reader was answered while a merge of two corrections was open, which
\* has committed since
C17_ReaderWitness ==
    \E r \in Handlers : \E o \in Handlers :
        /\ HasRead(r)
        /\ Committed(o)
        /\ req[r][1].no > req[o][1].no
        /\ Observed(db, "D1", version[r][1].id)
             # {<<a.rowId, a.correctedValue>> : a \in response[r][1].attributes}

-----------------------------------------------------------------------------
(* Further properties of the review merge (Spec).                           *)

\* C21: when the last correction of a committed merge that names a record
\* of the target version carries a null or empty correctedValue, the record's
\* correctedValue is empty or absent after the merge, its effective value is
\* its trimmed extractedValue, and when the same request had been merged
\* before, the record is as that earlier merge left it.
C21_ClearingIsApplied ==
    \A r \in Reqs :
        (Committed(r) /\ history[Len(history)].no = req[r][1].no) =>
            LET q == req[r][1]
                v == version[r][1]
                Naming(e) ==
                    {i \in 1..Len(q.attributes) :
                        /\ q.attributes[i].id # ""
                        /\ e.version_id = v.id
                        /\ IF q.impl = "fn"
                           THEN /\ e.document_id = q.document_id
                                /\ e.attribute_key = q.attributes[i].id
                           ELSE e.row_id = RowIdOf(q.attributes[i], v.id)}
                Last(e) == CHOOSE i \in Naming(e) : \A j \in Naming(e) : j <= i
                EffectiveValue(e) ==
                    LET rw == [correctedValue |-> e.corrected_value,
                               extractedValue |-> e.field_value]
                    IN  IF q.impl = "fn" THEN function_app_normalize_value(rw)
                        ELSE normalize_value(rw)
            IN  \A e \in db.extracted_fields :
                    (/\ Naming(e) # {}
                     /\ Falsy(q.attributes[Last(e)].correctedValue)) =>
                        /\ Falsy(e.corrected_value)
                        /\ EffectiveValue(e) = strip(OrEmpty(e.field_value))
                        /\ Len(history) = 2 => e \in history[1].after

\* rate -> 7 followed by an empty correctedValue for rate was merged twice by
\* the PostgreSQL server: the record of rate holds no correction
C21_Witness ==
    /\ Len(history) = 2
    /\ \E r \in Reqs :
          /\ Committed(r) /\ pc[r] = "done"
          /\ req[r][1].impl = "pg"
          /\ version[r][1].id = "v2"
          /\ req[r][1].attributes =
                <<[id |-> "rate", correctedValue |-> <<"7">>, rowId |-> Null],
                  [id |-> "rate", correctedValue |-> <<>>, rowId |-> Null]>>
    /\ \E e \in db.extracted_fields :
          e.row_id = RowId("rate", "v2") /\ e.corrected_value = <<>>

\* C24: the records that a merge changed are records of the request's
\* document and of its target version: the version of the submitted
\* versionNumber or, when none is submitted and always in function_app, the
\* version flagged latest; this also with a rowId supplied by the client.
C24_OnlyTargetVersionRecordsChange ==
    \A r \in Reqs :
        req[r] # None =>
            LET q == req[r][1]
                target ==
                    {v \in startDb[r].document_versions :
                        /\ v.documentId = q.document_id
                        /\ IF q.impl # "fn" /\ q.versionNumber # None
                           THEN v.versionNumber = q.versionNumber[1]
                           ELSE v.isLatest}
            IN  \A e \in startDb[r].extracted_fields \ db.extracted_fields :
                    /\ e.document_id = q.document_id
                    /\ e.version_id \in {v.id : v \in target}

\* the orchestrator merged, into version 1 of D1, rate -> 7 and a correction
\* whose rowId names the term record of version 2: rate of version 1 is 7 and
\* nothing else has changed
C24_Witness ==
    \E r \in Reqs :
        /\ Committed(r) /\ pc[r] = "done"
        /\ req[r][1].impl = "orch"
        /\ req[r][1].versionNumber = Some(1)
        /\ req[r][1].attributes =
              <<[id |-> "rate", correctedValue |-> <<"7">>, rowId |-> Null],
                [id |-> "rate", correctedValue |-> <<"8">>,
                 rowId |-> RowId("term", "v2")]>>
        /\ db.extracted_fields \ startDb[r].extracted_fields =
              {[ExtractedField("D1", "v1", "rate", <<"5">>)
                   EXCEPT !.corrected_value = <<"7">>]}

\* C25: the committed AttributeRecords are at every moment the seeded ones
\* in everything but correctedValue: no record is inserted or deleted, and no
\* record's rowId, document, version, attributeKey or extractedValue changes,
\* whether merges commit or roll back.
C25_OnlyCorrectedValueChanges ==
    LET Fixed(e) == [row_id |-> e.row_id, document_id |-> e.document_id,
                     version_id |-> e.version_id,
                     attribute_key |-> e.attribute_key,
                     field_value |-> e.field_value]
    IN  /\ Cardinality(db.extracted_fields)
             = Cardinality(SeedDb.extracted_fields)
        /\ {Fixed(e) : e \in db.extracted_fields}
             = {Fixed(e) : e \in SeedDb.extracted_fields}
        /\ \A r \in Handlers :
               LET view == TxView(db, tx[r]).extracted_fields
               IN  /\ Cardinality(view) = Cardinality(SeedDb.extracted_fields)
                   /\ {Fixed(e) : e \in view}
                        = {Fixed(e) : e \in SeedDb.extracted_fields}

\* a merge that corrected a record committed, and its resubmission was
\* rolled back after its UPDATEs
C25_Witness ==
    /\ Len(history) = 1
    /\ db.extracted_fields # SeedDb.extracted_fields
    /\ \E r \in Reqs :
          /\ req[r] # None /\ req[r][1].no = 2
          /\ idx[r] > Len(LoopItems(req[r][1]))
          /\ pc[r] = "done"
          /\ response[r] = Some(ErrorResponse(500))

C27_AuditRowsFormChain ==
    \A n \in 1..Len(db.reviewed_fields) :
        LET a == db.reviewed_fields[n]
            earlier ==
                {m \in 1..(n - 1) :
                    /\ db.reviewed_fields[m].target_version_id
                         = a.target_version_id
                    /\ db.reviewed_fields[m].attribute_key = a.attribute_key}
            previous == CHOOSE m \in earlier : \A k \in earlier : k <= m
        IN  a.old_corrected_value =
                IF earlier = {} THEN Null
                ELSE db.reviewed_fields[previous].new_corrected_value

\* C28: the audit rows of a committed merge of the PostgreSQL server or of
\* the orchestrator are, in order, those of its corrections with an id; when
\* such a correction's rowId (supplied or derived) is that of a record of the
\* target version, which its UPDATE has written, the row's attribute_key is
\* that record's attribute_key.
C28_AuditRowNamesUpdatedRecord ==
    \A r \in Reqs :
        (Audited(r) /\ Committed(r)) =>
            LET q == req[r][1]
                v == version[r][1]
                OfSession(a) == a.review_id = review_id[r]
                HasId(attr) == attr.id # ""
                rows == SelectSeq(db.reviewed_fields, OfSession)
                corrections == SelectSeq(q.attributes, HasId)
            IN  /\ Len(rows) = Len(corrections)
                /\ \A k \in 1..Len(rows) :
                   \A e \in db.extracted_fields :
                       (/\ e.version_id = v.id
                        /\ e.row_id = RowIdOf(corrections[k], v.id)) =>
                           rows[k].attribute_key = e.attribute_key

\* C29: the count in the 200 answer of a merge (fieldsUpdated of the
\* PostgreSQL server and of the orchestrator, updatedCount of function_app)
\* is the number of records of the target version that a correction of the
\* request with a non-empty id names, i.e. that the merge's UPDATEs wrote.
C29_CountIsRecordsWritten ==
    \A r \in Reqs :
        (/\ Committed(r)
         /\ req[r][1].impl \in {"pg", "orch", "fn"}
         /\ response[r] # None
         /\ response[r][1].status = 200) =>
            LET q == req[r][1]
                v == version[r][1]
                Named(e) ==
                    \E i \in 1..Len(q.attributes) :
                        /\ q.attributes[i].id # ""
                        /\ e.version_id = v.id
                        /\ IF q.impl = "fn"
                           THEN /\ e.document_id = q.document_id
                                /\ e.attribute_key = q.attributes[i].id
                           ELSE e.row_id = RowIdOf(q.attributes[i], v.id)
            IN  response[r][1].fieldsUpdated =
                    Cardinality({e \in db.extracted_fields : Named(e)})

-----------------------------------------------------------------------------
(* Properties of the Conga client (SpecConga).                              *)

\* C30: a call in real mode makes at most retry_count + 1 HTTP attempts and
\* none after an attempt that received a successful answer; its result has
\* success true whenever an attempt received a successful answer, and success
\* false only after retry_count + 1 failed attempts; a client with
\* CONGA_ENABLED false makes no attempt and writes nothing.
C30_PostbackAttempts ==
    /\ client.posts <= client.retry_count + 1
    /\ client.succeeded => client.pc = "returned"
    /\ (client.pc = "returned" /\ client.result.kind = "real") =>
           /\ client.succeeded => client.result.success = "true"
           /\ client.result.success = "false" =>
                 /\ ~client.succeeded
                 /\ client.posts = client.retry_count + 1
    /\ (client.pc # "new" /\ ~client.enabled) =>
           /\ client.posts = 0
           /\ client.file = 0
           /\ client.pc = "returned" => client.result.kind = "skipped"

====
